---------------------------- MODULE Spec2Model ----------------------------
(***************************************************************************)
(* Layer8Streamer (src/src/layer8_client.rs): a message streamer over a    *)
(* FrameSocket with an optional symmetric key.  With a key, every outgoing *)
(* frame is serialized, encrypted, wrapped in an envelope and carried as   *)
(* the payload of an outer Binary frame; read() reverses the process and   *)
(* parses the nested frame from the decrypted buffer.                      *)
(*                                                                         *)
(* One sending streamer and one receiving streamer share one byte stream   *)
(* (an in-memory buffer, as in tests::test_stream and the fuzz target).    *)
(* Bytes are naturals 0..255, byte strings are sequences.                  *)
(***************************************************************************)
EXTENDS Naturals, Integers, Sequences, FiniteSets, TLC

(***************************************************************************)
(* Bounds of the model.                                                    *)
(***************************************************************************)
MaxMsgs == 2            \* frames put on the stream in one behaviour
MaxTamperMsgs == 1      \* the same, in behaviours where the stream is tampered with
MaxStreamWrites == 2    \* writes of a Layer8Stream that put bytes on its stream
MaxStreamReads == 2     \* reads of a Layer8Stream
MaxRequests == 3        \* messages the client of the ping scenario sends

(***************************************************************************)
(* Byte helpers.                                                           *)
(***************************************************************************)
RECURSIVE Xor(_, _)
Xor(a, b) ==
    IF a = 0 THEN b
    ELSE IF b = 0 THEN a
    ELSE (((a % 2) + (b % 2)) % 2) + 2 * Xor(a \div 2, b \div 2)

RECURSIVE SumRange(_, _, _)
SumRange(s, lo, hi) ==
    IF lo > hi THEN 0
    ELSE IF lo = hi THEN s[lo]
    ELSE LET mid == (lo + hi) \div 2
         IN SumRange(s, lo, mid) + SumRange(s, mid + 1, hi)

SumBytes(s) == SumRange(s, 1, Len(s))

RECURSIVE BigEndian(_)
BigEndian(s) ==
    IF s = <<>> THEN 0 ELSE s[Len(s)] + 256 * BigEndian(SubSeq(s, 1, Len(s) - 1))

Fill(n, b) == [i \in 1..n |-> b]

Drop(s, n) == SubSeq(s, n + 1, Len(s))

(***************************************************************************)
(* Frame: fin bit, opcode, optional 4-byte mask (<<>> is None), payload.   *)
(***************************************************************************)
OpContinuation == 0
OpText == 1
OpBinary == 2
OpClose == 8
OpPing == 9
OpPong == 10

OpCodes == {OpContinuation, OpText, OpBinary, OpClose, OpPing, OpPong}

IsControl(opcode) == opcode \in {OpClose, OpPing, OpPong}

MaxControlPayload == 125

NoMask == <<>>

MkFrame(fin, opcode, mask, payload) ==
    [fin |-> fin, opcode |-> opcode, mask |-> mask, payload |-> payload]

NoFrame == MkFrame(FALSE, OpContinuation, NoMask, <<>>)

\* Frame::message(data, opcode, is_final)
Frame_message(data, opcode, is_final) == MkFrame(is_final, opcode, NoMask, data)

\* Frame::ping(data): the call site takes the result as a Frame, not a Result
Frame_ping(data) == MkFrame(TRUE, OpPing, NoMask, data)

\* Frame::pong(data)
Frame_pong(data) == MkFrame(TRUE, OpPong, NoMask, data)

\* Frame::close(Option<CloseFrame>): no payload, or code (2 bytes) and reason
Frame_close(msg) ==
    MkFrame(TRUE, OpClose, NoMask,
            IF msg.hasCode
            THEN <<msg.code \div 256, msg.code % 256>> \o msg.data
            ELSE <<>>)

(***************************************************************************)
(* Frame codec: serialization (format_into_buf) and parsing.               *)
(***************************************************************************)
apply_mask(payload, mask) ==
    IF mask = NoMask THEN payload
    ELSE [i \in 1..Len(payload) |-> Xor(payload[i], mask[((i - 1) % 4) + 1])]

LengthBytes(n, maskBit) ==
    IF n <= 125 THEN <<maskBit + n>>
    ELSE IF n < 65536 THEN <<maskBit + 126, n \div 256, n % 256>>
    ELSE <<maskBit + 127, 0, 0, 0, 0,
           (n \div 16777216) % 256, (n \div 65536) % 256,
           (n \div 256) % 256, n % 256>>

format_into_buf(frame) ==
    <<(IF frame.fin THEN 128 ELSE 0) + frame.opcode>>
      \o LengthBytes(Len(frame.payload), IF frame.mask = NoMask THEN 0 ELSE 128)
      \o frame.mask
      \o apply_mask(frame.payload, frame.mask)

\* parse(bytes) -> Frame | Incomplete | Malformed ("empty": no byte at all)
ParseFrame(bs) ==
    LET bad(st) == [status |-> st, frame |-> NoFrame, used |-> 0] IN
    IF Len(bs) = 0 THEN bad("empty")
    ELSE IF Len(bs) < 2 THEN bad("incomplete")
    ELSE
      LET fin    == bs[1] >= 128
          rsv    == (bs[1] \div 16) % 8
          opcode == bs[1] % 16
          masked == bs[2] >= 128
          len7   == bs[2] % 128
          ext    == IF len7 = 126 THEN 2 ELSE IF len7 = 127 THEN 8 ELSE 0
          hdr    == 2 + ext + (IF masked THEN 4 ELSE 0)
      IN
      IF rsv # 0 \/ opcode \notin OpCodes THEN bad("malformed")
      ELSE IF Len(bs) < hdr THEN bad("incomplete")
      ELSE
        LET plen == IF ext = 0 THEN len7 ELSE BigEndian(SubSeq(bs, 3, 2 + ext))
            mask == IF masked THEN SubSeq(bs, hdr - 3, hdr) ELSE NoMask
        IN
        IF Len(bs) < hdr + plen THEN bad("incomplete")
        ELSE [status |-> "ok",
              frame  |-> MkFrame(fin, opcode, NoMask,
                                 apply_mask(SubSeq(bs, hdr + 1, hdr + plen), mask)),
              used   |-> hdr + plen]

\* Option<u64> of the size limit: <<>> is None, <<n>> is Some(n)
NoLimit == <<>>

\* The configured ceiling of one read (max_read_size; its default is 1 GiB),
\* here a value that frames of the model exceed
max_read_size == 64

\* FrameSocket::read(size_limit) over the bytes not yet consumed: Some(frame),
\* None at a clean end of data, or an error; a frame longer than a limit
\* that is given is an error
FrameSocket_read_limit(pending, size_limit) ==
    LET p == ParseFrame(pending) IN
    IF p.status = "ok"
    THEN IF size_limit # NoLimit /\ p.used > size_limit[1]
         THEN [res |-> "err", frame |-> NoFrame, used |-> 0]
         ELSE [res |-> "some", frame |-> p.frame, used |-> p.used]
    ELSE IF p.status = "empty" THEN [res |-> "none", frame |-> NoFrame, used |-> 0]
    ELSE [res |-> "err", frame |-> NoFrame, used |-> 0]

\* frame_socket.read(None): the call the streamer makes (lines 95 and 125)
FrameSocket_read(pending) == FrameSocket_read_limit(pending, NoLimit)

\* The number of bytes FrameSocket asks of the underlying stream at a time
ReadChunk == 4

\* One turn of the loop of FrameSocket::read(None): a frame if the buffer
\* holds one, an error if it cannot begin one; otherwise more bytes are asked
\* of the underlying stream, and when it has none left the call ends with
\* None on an empty buffer and with an error on part of a frame
FrameSocket_read_step(in_buffer, rest) ==
    LET p == ParseFrame(in_buffer)
        n == IF Len(rest) < ReadChunk THEN Len(rest) ELSE ReadChunk
        st(pc, res, frame, b, r) ==
            [pc |-> pc, res |-> res, frame |-> frame, in_buffer |-> b, rest |-> r]
    IN IF p.status = "ok"
       THEN st("frame", "some", p.frame, SubSeq(in_buffer, p.used + 1, Len(in_buffer)), rest)
       ELSE IF p.status = "malformed" THEN st("done", "err", NoFrame, in_buffer, rest)
       ELSE IF n = 0
       THEN IF in_buffer = <<>>
            THEN st("done", "none", NoFrame, in_buffer, rest)
            ELSE st("done", "err", NoFrame, in_buffer, rest)
       ELSE st("read", "", NoFrame, in_buffer \o SubSeq(rest, 1, n),
               SubSeq(rest, n + 1, Len(rest)))

(***************************************************************************)
(* Symmetric cipher of the key (Jwk::symmetric_encrypt / symmetric_decrypt) *)
(* as an authenticated cipher over bytes: a nonce, the body shifted by the  *)
(* key byte, and a two-byte tag binding key, nonce and plaintext.  Decrypt  *)
(* fails on a short input or a tag that does not match.                     *)
(***************************************************************************)
Tag(key, nonce, pt) == <<Xor(key, nonce), (key + SumBytes(pt) + Len(pt)) % 256>>

symmetric_encrypt(key, nonce, pt) ==
    <<nonce>> \o [i \in 1..Len(pt) |-> (pt[i] + key) % 256] \o Tag(key, nonce, pt)

symmetric_decrypt(key, ct) ==
    IF Len(ct) < 3 THEN [ok |-> FALSE, data |-> <<>>]
    ELSE
      LET body == SubSeq(ct, 2, Len(ct) - 2)
          pt   == [i \in 1..Len(body) |-> (body[i] + 256 - key) % 256]
      IN IF SubSeq(ct, Len(ct) - 1, Len(ct)) = Tag(key, ct[1], pt)
         THEN [ok |-> TRUE, data |-> pt]
         ELSE [ok |-> FALSE, data |-> <<>>]

(***************************************************************************)
(* RoundtripEnvelope: the ciphertext in a transport-safe text encoding     *)
(* (two characters 'A'..'P' per byte), carried as the "data" member of a   *)
(* JSON object.                                                            *)
(***************************************************************************)
JsonPrefix == <<123, 34, 100, 97, 116, 97, 34, 58, 34>>      \* {"data":"
JsonSuffix == <<34, 125>>                                    \* "}

RoundtripEnvelope_encode(data) ==
    [i \in 1..(2 * Len(data)) |->
        IF i % 2 = 1
        THEN 65 + (data[(i + 1) \div 2] \div 16)
        ELSE 65 + (data[i \div 2] % 16)]

to_json_bytes(text) == JsonPrefix \o text \o JsonSuffix

from_json_bytes(bytes) ==
    LET n == Len(bytes)
        p == Len(JsonPrefix)
        q == Len(JsonSuffix)
    IN IF /\ n >= p + q
          /\ SubSeq(bytes, 1, p) = JsonPrefix
          /\ SubSeq(bytes, n - q + 1, n) = JsonSuffix
          /\ \A i \in (p + 1)..(n - q) : bytes[i] # 34 /\ bytes[i] # 92
       THEN [ok |-> TRUE, data |-> SubSeq(bytes, p + 1, n - q)]
       ELSE [ok |-> FALSE, data |-> <<>>]

RoundtripEnvelope_decode(text) ==
    IF /\ Len(text) % 2 = 0
       /\ \A i \in 1..Len(text) : text[i] >= 65 /\ text[i] <= 80
    THEN [ok |-> TRUE,
          data |-> [i \in 1..(Len(text) \div 2) |->
                       16 * (text[2 * i - 1] - 65) + (text[2 * i] - 65)]]
    ELSE [ok |-> FALSE, data |-> <<>>]

(***************************************************************************)
(* Message and its conversion to one frame (write_message, lines 60-67).   *)
(***************************************************************************)
Msg(kind, data) ==
    [kind |-> kind, data |-> data, hasCode |-> FALSE, code |-> 0, frame |-> NoFrame]

MsgClose(code, reason) ==
    [kind |-> "Close", data |-> reason, hasCode |-> TRUE, code |-> code,
     frame |-> NoFrame]

MsgFrame(f) ==
    [kind |-> "Frame", data |-> <<>>, hasCode |-> FALSE, code |-> 0, frame |-> f]

MessageToFrame(message) ==
    CASE message.kind = "Text"   -> Frame_message(message.data, OpText, TRUE)
      [] message.kind = "Binary" -> Frame_message(message.data, OpBinary, TRUE)
      [] message.kind = "Ping"   -> Frame_ping(message.data)
      [] message.kind = "Pong"   -> Frame_pong(message.data)
      [] message.kind = "Close"  -> Frame_close(message)
      [] OTHER                   -> message.frame

(***************************************************************************)
(* Option<Jwk>: <<>> is None, <<k>> is Some(k).                            *)
(***************************************************************************)
NoSecret == <<>>

\* Mutant: control frames are handed to the socket as they are
WrapFrame_ControlInClear(frame, secret, nonce, fail) ==
    IF secret # NoSecret /\ ~IsControl(frame.opcode)
    THEN IF fail \in {"format", "encrypt"}
         THEN [ok |-> FALSE, frame |-> NoFrame]
         ELSE [ok |-> TRUE,
               frame |-> Frame_message(
                   to_json_bytes(RoundtripEnvelope_encode(
                       symmetric_encrypt(secret[1], nonce, format_into_buf(frame)))),
                   OpBinary, TRUE)]
    ELSE [ok |-> TRUE, frame |-> frame]

\* Mutant: only the payload of the frame is encrypted, not its serialization
WrapFrame_PayloadOnly(frame, secret, nonce, fail) ==
    IF secret # NoSecret
    THEN IF fail \in {"format", "encrypt"}
         THEN [ok |-> FALSE, frame |-> NoFrame]
         ELSE [ok |-> TRUE,
               frame |-> Frame_message(
                   to_json_bytes(RoundtripEnvelope_encode(
                       symmetric_encrypt(secret[1], nonce, frame.payload))),
                   OpBinary, TRUE)]
    ELSE [ok |-> TRUE, frame |-> frame]

\* Mutant: without a key the serialized frame is still nested in a Binary frame
WrapFrame_Nested(frame, secret, nonce, fail) ==
    IF secret # NoSecret
    THEN IF fail \in {"format", "encrypt"}
         THEN [ok |-> FALSE, frame |-> NoFrame]
         ELSE [ok |-> TRUE,
               frame |-> Frame_message(
                   to_json_bytes(RoundtripEnvelope_encode(
                       symmetric_encrypt(secret[1], nonce, format_into_buf(frame)))),
                   OpBinary, TRUE)]
    ELSE [ok |-> TRUE, frame |-> Frame_message(format_into_buf(frame), OpBinary, TRUE)]

\* The frame handed to the frame socket (write_message, lines 69-86).
\* fail names the step of this call that fails, if any.
WrapFrame(frame, secret, nonce, fail) ==
    IF secret # NoSecret
    THEN IF fail \in {"format", "encrypt"}
         THEN [ok |-> FALSE, frame |-> NoFrame]
         ELSE [ok |-> TRUE,
               frame |-> Frame_message(
                   to_json_bytes(RoundtripEnvelope_encode(
                       symmetric_encrypt(secret[1], nonce, format_into_buf(frame)))),
                   OpBinary, TRUE)]
    ELSE [ok |-> TRUE, frame |-> frame]

\* FrameSocket::write: the serialized frame goes to the stream, or an I/O
\* error leaves it unwritten
FrameSocket_write(frame, fail) ==
    IF fail = "io" THEN [ok |-> FALSE, bytes |-> <<>>]
    ELSE [ok |-> TRUE, bytes |-> format_into_buf(frame)]

\* write_message: the result, the converted frame, the frame handed to the
\* socket and the bytes put on the stream
\* err names the step that failed; socketWrites counts the calls of
\* frame_socket.write (line 88)
WriteResult(res, err, inner, handed, socketWrites, bytes) ==
    [res |-> res, err |-> err, inner |-> inner, handed |-> handed,
     socketWrites |-> socketWrites, bytes |-> bytes]

\* Mutant: when the frame cannot be wrapped it is written as it is
write_message_WritesOnFailure(message, secret, nonce, fail) ==
    LET frame == MessageToFrame(message)
        w     == WrapFrame(frame, secret, nonce, fail)
        out   == FrameSocket_write(w.frame, fail)
    IN IF ~w.ok
       THEN WriteResult("err", fail, frame, frame, 1, format_into_buf(frame))
       ELSE IF ~out.ok
       THEN WriteResult("err", "io", frame, w.frame, 1, <<>>)
       ELSE WriteResult("ok", "", frame, w.frame, 1, out.bytes)

write_message(message, secret, nonce, fail) ==
    LET frame == MessageToFrame(message)
        w     == WrapFrame(frame, secret, nonce, fail)
        out   == FrameSocket_write(w.frame, fail)
    IN IF ~w.ok
       THEN WriteResult("err", fail, frame, NoFrame, 0, <<>>)
       ELSE IF ~out.ok
       THEN WriteResult("err", "io", frame, w.frame, 1, <<>>)
       ELSE WriteResult("ok", "", frame, w.frame, 1, out.bytes)

(***************************************************************************)
(* read_message (lines 93-139) over the bytes not yet consumed.            *)
(***************************************************************************)
\* No message: the value of Ok(None) and of an error
NoMessage == Msg("None", <<>>)

\* Mutant: the frame read is returned as the message variant of its opcode
ReadResult_Decoded(res, frame, used, err) ==
    [res |-> res, frame |-> frame, used |-> used, err |-> err,
     msg |-> IF res # "some" THEN NoMessage
             ELSE IF frame.opcode = OpText THEN Msg("Text", frame.payload)
             ELSE IF frame.opcode = OpBinary THEN Msg("Binary", frame.payload)
             ELSE IF frame.opcode = OpPing THEN Msg("Ping", frame.payload)
             ELSE IF frame.opcode = OpPong THEN Msg("Pong", frame.payload)
             ELSE MsgFrame(frame)]

\* The value read_message returns: line 99 (Ok(None)), line 138
\* (Ok(Some(Message::Frame(frame)))) or one of the errors, with the bytes the
\* frame socket consumed
ReadResult(res, frame, used, err) ==
    [res |-> res, frame |-> frame, used |-> used, err |-> err,
     msg |-> IF res = "some" THEN MsgFrame(frame) ELSE NoMessage]

\* Mutant: a decrypted buffer without a frame is reported as end of data
Unwrap_NestedNoneIsNone(outer, secret) ==
    LET json == from_json_bytes(outer.payload)
        env  == RoundtripEnvelope_decode(json.data)
        dec  == symmetric_decrypt(secret[1], env.data)
        nest == FrameSocket_read(dec.data)
    IN IF ~json.ok THEN [res |-> "err", frame |-> NoFrame, err |-> "json"]
       ELSE IF ~env.ok THEN [res |-> "err", frame |-> NoFrame, err |-> "decode"]
       ELSE IF ~dec.ok THEN [res |-> "err", frame |-> NoFrame, err |-> "decrypt"]
       ELSE IF nest.res = "err"
       THEN [res |-> "err", frame |-> NoFrame, err |-> "nested_read"]
       ELSE [res |-> nest.res, frame |-> nest.frame, err |-> ""]

\* Mutant: a payload that is no envelope is taken as a plain frame
Unwrap_FallbackPlain(outer, secret) ==
    LET json == from_json_bytes(outer.payload)
        env  == RoundtripEnvelope_decode(json.data)
        dec  == symmetric_decrypt(secret[1], env.data)
        nest == FrameSocket_read(dec.data)
    IN IF ~json.ok THEN [res |-> "some", frame |-> outer, err |-> ""]
       ELSE IF ~env.ok THEN [res |-> "err", frame |-> NoFrame, err |-> "decode"]
       ELSE IF ~dec.ok THEN [res |-> "err", frame |-> NoFrame, err |-> "decrypt"]
       ELSE IF nest.res = "err"
       THEN [res |-> "err", frame |-> NoFrame, err |-> "nested_read"]
       ELSE IF nest.res = "none"
       THEN [res |-> "err", frame |-> NoFrame, err |-> "nested_missing"]
       ELSE [res |-> "some", frame |-> nest.frame, err |-> ""]

\* Mutant: the nested frame is unwrapped, a panic when there is none
Unwrap_NestedNonePanics(outer, secret) ==
    LET json == from_json_bytes(outer.payload)
        env  == RoundtripEnvelope_decode(json.data)
        dec  == symmetric_decrypt(secret[1], env.data)
        nest == FrameSocket_read(dec.data)
    IN IF ~json.ok THEN [res |-> "err", frame |-> NoFrame, err |-> "json"]
       ELSE IF ~env.ok THEN [res |-> "err", frame |-> NoFrame, err |-> "decode"]
       ELSE IF ~dec.ok THEN [res |-> "err", frame |-> NoFrame, err |-> "decrypt"]
       ELSE IF nest.res = "err"
       THEN [res |-> "err", frame |-> NoFrame, err |-> "nested_read"]
       ELSE IF nest.res = "none"
       THEN [res |-> "panic", frame |-> NoFrame, err |-> "nested_missing"]
       ELSE [res |-> "some", frame |-> nest.frame, err |-> ""]

\* lines 103-136: envelope parse, decode, decrypt, nested frame read
Unwrap(outer, secret) ==
    LET json == from_json_bytes(outer.payload)
        env  == RoundtripEnvelope_decode(json.data)
        dec  == symmetric_decrypt(secret[1], env.data)
        nest == FrameSocket_read(dec.data)
    IN IF ~json.ok THEN [res |-> "err", frame |-> NoFrame, err |-> "json"]
       ELSE IF ~env.ok THEN [res |-> "err", frame |-> NoFrame, err |-> "decode"]
       ELSE IF ~dec.ok THEN [res |-> "err", frame |-> NoFrame, err |-> "decrypt"]
       ELSE IF nest.res = "err"
       THEN [res |-> "err", frame |-> NoFrame, err |-> "nested_read"]
       ELSE IF nest.res = "none"
       THEN [res |-> "err", frame |-> NoFrame, err |-> "nested_missing"]
       ELSE [res |-> "some", frame |-> nest.frame, err |-> ""]

\* Mutant: the nested frame is read from the outer frame socket
read_message_NestedFromOuter(pending, secret) ==
    LET outer == FrameSocket_read(pending) IN
    IF outer.res = "err" THEN ReadResult("err", NoFrame, 0, "frame")
    ELSE IF outer.res = "none" THEN ReadResult("none", NoFrame, 0, "")
    ELSE IF secret # NoSecret
    THEN LET u    == Unwrap(outer.frame, secret)
             next == FrameSocket_read(Drop(pending, outer.used))
         IN IF u.res = "err" THEN ReadResult("err", NoFrame, outer.used, u.err)
            ELSE IF next.res = "some"
            THEN ReadResult("some", next.frame, outer.used + next.used, "")
            ELSE ReadResult("err", NoFrame, outer.used, "nested_missing")
    ELSE ReadResult("some", outer.frame, outer.used, "")

\* Mutant: the outer socket advances by the length of the nested frame
read_message_NestedPosition(pending, secret) ==
    LET outer == FrameSocket_read(pending) IN
    IF outer.res = "err" THEN ReadResult("err", NoFrame, 0, "frame")
    ELSE IF outer.res = "none" THEN ReadResult("none", NoFrame, 0, "")
    ELSE IF secret # NoSecret
    THEN LET u == Unwrap(outer.frame, secret)
         IN ReadResult(u.res, u.frame,
                       IF u.res = "some" THEN Len(format_into_buf(u.frame))
                       ELSE outer.used, u.err)
    ELSE ReadResult("some", outer.frame, outer.used, "")

\* Mutant: a frame whose envelope cannot be opened stays in the socket
read_message_ErrKeepsFrame(pending, secret) ==
    LET outer == FrameSocket_read(pending) IN
    IF outer.res = "err" THEN ReadResult("err", NoFrame, 0, "frame")
    ELSE IF outer.res = "none" THEN ReadResult("none", NoFrame, 0, "")
    ELSE IF secret # NoSecret
    THEN LET u == Unwrap(outer.frame, secret)
         IN ReadResult(u.res, u.frame, IF u.res = "err" THEN 0 ELSE outer.used, u.err)
    ELSE ReadResult("some", outer.frame, outer.used, "")

\* Mutant: a streamer without a key opens envelopes with a built-in key
read_message_DefaultKey(pending, secret) ==
    LET outer == FrameSocket_read(pending) IN
    IF outer.res = "err" THEN ReadResult("err", NoFrame, 0, "frame")
    ELSE IF outer.res = "none" THEN ReadResult("none", NoFrame, 0, "")
    ELSE LET u == Unwrap(outer.frame, IF secret # NoSecret THEN secret ELSE <<90>>)
         IN IF secret = NoSecret /\ u.res # "some"
            THEN ReadResult("some", outer.frame, outer.used, "")
            ELSE ReadResult(u.res, u.frame, outer.used, u.err)

\* Mutant: a failure of the frame socket's read is reported as end of data
read_message_ErrAsNone(pending, secret) ==
    LET outer == FrameSocket_read(pending) IN
    IF outer.res # "some" THEN ReadResult("none", NoFrame, 0, "")
    ELSE IF secret # NoSecret
    THEN LET u == Unwrap(outer.frame, secret)
         IN ReadResult(u.res, u.frame, outer.used, u.err)
    ELSE ReadResult("some", outer.frame, outer.used, "")

read_message(pending, secret) ==
    LET outer == FrameSocket_read(pending) IN
    IF outer.res = "err" THEN ReadResult("err", NoFrame, 0, "frame")
    ELSE IF outer.res = "none" THEN ReadResult("none", NoFrame, 0, "")
    ELSE IF secret # NoSecret
    THEN LET u == Unwrap(outer.frame, secret)
         IN ReadResult(u.res, u.frame, outer.used, u.err)
    ELSE ReadResult("some", outer.frame, outer.used, "")

(***************************************************************************)
(* The public operations (lines 37-57).                                    *)
(***************************************************************************)
\* Mutant: the key is taken out of the streamer for the call and put back
\* only when the call succeeds
shared_secret_after_LostOnError(secret, res) ==
    IF res = "err" THEN NoSecret ELSE secret

\* The field shared_secret after read, send, write or flush: the operations
\* borrow it (lines 70 and 103) and none assigns it
shared_secret_after(secret, res) == secret

\* FrameSocket::flush: forwards to the stream's flush, which may fail
FrameSocket_flush(flushOk) == flushOk

\* Mutant: write flushes like send
write_Flushes(message, secret, nonce, fail) ==
    LET w == write_message(message, secret, nonce, fail)
    IN [res |-> w.res, w |-> w, flushCalled |-> w.res = "ok", flushed |-> w.res = "ok"]

\* write (lines 48-50): write_message and nothing else
write(message, secret, nonce, fail) ==
    LET w == write_message(message, secret, nonce, fail)
    IN [res |-> w.res, w |-> w, flushCalled |-> FALSE, flushed |-> FALSE]

\* Mutant: send leaves the flush out
send_NoFlush(message, secret, nonce, fail, flushOk) ==
    LET w == write_message(message, secret, nonce, fail)
    IN [res |-> w.res, w |-> w, flushCalled |-> FALSE, flushed |-> FALSE]

\* send (lines 42-45): write_message, then flush with its result discarded
send(message, secret, nonce, fail, flushOk) ==
    LET w == write_message(message, secret, nonce, fail)
    IN IF w.res = "err"
       THEN [res |-> "err", w |-> w, flushCalled |-> FALSE, flushed |-> FALSE]
       ELSE [res |-> "ok", w |-> w, flushCalled |-> TRUE,
             flushed |-> FrameSocket_flush(flushOk)]

\* flush (lines 53-57): the frame socket's flush, its error mapped and returned
flush(flushOk) ==
    LET ok == FrameSocket_flush(flushOk)
    IN [res |-> IF ok THEN "ok" ELSE "err", flushCalled |-> TRUE, flushed |-> ok]

(***************************************************************************)
(* Layer8Stream (src/src/layer8_streamer.rs, debug build): a byte stream   *)
(* adapter that writes each buffer as one envelope and reads one envelope  *)
(* per call.  The underlying stream is a cursor over a byte vector; a      *)
(* stream in general may accept or return fewer bytes than asked, or fail. *)
(***************************************************************************)
Min(a, b) == IF a < b THEN a ELSE b

\* Write::write of the underlying stream: the number of bytes it accepts
Stream_write(bytes, fail, short) ==
    IF fail = "io" THEN [ok |-> FALSE, n |-> 0]
    ELSE [ok |-> TRUE, n |-> IF short THEN Len(bytes) - 1 ELSE Len(bytes)]

\* Read::read of the underlying stream into a buffer of length len: the
\* number of bytes it returns
Stream_read(pending, len, fail, short) ==
    LET want == Min(len, Len(pending)) IN
    IF fail = "io" THEN [ok |-> FALSE, n |-> 0]
    ELSE [ok |-> TRUE, n |-> IF short /\ want > 1 THEN want - 1 ELSE want]

\* buf with its first n bytes replaced by the first n bytes of src
Overwrite(buf, src, n) == [i \in 1..Len(buf) |-> IF i <= n THEN src[i] ELSE buf[i]]

\* Mutant: write reports the number of encrypted bytes
common_write_ReportsEncrypted(buf, key, nonce, fail, short) ==
    LET data_encrypted ==
            to_json_bytes(RoundtripEnvelope_encode(symmetric_encrypt(key, nonce, buf)))
        w == Stream_write(data_encrypted, fail, short)
        none == [res |-> "err", encrypted_written |-> 0, reported |-> 0, bytes |-> <<>>]
    IN IF buf = <<>>
       THEN [res |-> "ok", encrypted_written |-> 0, reported |-> 0, bytes |-> <<>>]
       ELSE IF fail = "encrypt" THEN none
       ELSE IF ~w.ok THEN none
       ELSE IF w.n # Len(data_encrypted)
       THEN [none EXCEPT !.bytes = SubSeq(data_encrypted, 1, w.n)]
       ELSE [res |-> "ok", encrypted_written |-> w.n, reported |-> w.n,
             bytes |-> data_encrypted]

\* Mutant: a short write of the underlying stream is reported as success
common_write_PartialOk(buf, key, nonce, fail, short) ==
    LET data_encrypted ==
            to_json_bytes(RoundtripEnvelope_encode(symmetric_encrypt(key, nonce, buf)))
        w == Stream_write(data_encrypted, fail, short)
        none == [res |-> "err", encrypted_written |-> 0, reported |-> 0, bytes |-> <<>>]
    IN IF buf = <<>>
       THEN [res |-> "ok", encrypted_written |-> 0, reported |-> 0, bytes |-> <<>>]
       ELSE IF fail = "encrypt" THEN none
       ELSE IF ~w.ok THEN none
       ELSE [res |-> "ok", encrypted_written |-> w.n, reported |-> Len(buf),
             bytes |-> SubSeq(data_encrypted, 1, w.n)]

\* common_write (lines 44-68): the result, the pair it returns and the bytes
\* the underlying stream took
common_write(buf, key, nonce, fail, short) ==
    LET data_encrypted ==
            to_json_bytes(RoundtripEnvelope_encode(symmetric_encrypt(key, nonce, buf)))
        w == Stream_write(data_encrypted, fail, short)
        none == [res |-> "err", encrypted_written |-> 0, reported |-> 0, bytes |-> <<>>]
    IN IF buf = <<>>
       THEN [res |-> "ok", encrypted_written |-> 0, reported |-> 0, bytes |-> <<>>]
       ELSE IF fail = "encrypt" THEN none
       ELSE IF ~w.ok THEN none
       ELSE IF w.n # Len(data_encrypted)
       THEN [none EXCEPT !.bytes = SubSeq(data_encrypted, 1, w.n)]
       ELSE [res |-> "ok", encrypted_written |-> w.n, reported |-> Len(buf),
             bytes |-> data_encrypted]

\* Mutant: the decrypted bytes are not copied into the caller's buffer
common_read_NoCopy(buf, key, pending, fail, short) ==
    LET r    == Stream_read(pending, Len(buf), fail, short)
        buf1 == Overwrite(buf, pending, r.n)
        json == from_json_bytes(buf1)
        env  == RoundtripEnvelope_decode(json.data)
        dec  == symmetric_decrypt(key, env.data)
        read_len == Min(Len(dec.data), Len(buf))
        out(res, er, rl, b, used) ==
            [res |-> res, encrypted_read |-> er, read_len |-> rl, buf |-> b,
             used |-> used]
    IN IF ~r.ok THEN out("err", 0, 0, buf, 0)
       ELSE IF r.n = 0 THEN out("ok", 0, 0, buf1, 0)
       ELSE IF ~json.ok \/ ~env.ok \/ ~dec.ok THEN out("err", 0, 0, buf1, r.n)
       ELSE IF read_len = 0 THEN out("ok", 0, 0, buf1, r.n)
       ELSE out("ok", r.n, read_len, buf1, r.n)

\* common_read (lines 74-114): the result, the pair it returns, the caller's
\* buffer afterwards and the bytes taken from the underlying stream
common_read(buf, key, pending, fail, short) ==
    LET r    == Stream_read(pending, Len(buf), fail, short)
        buf1 == Overwrite(buf, pending, r.n)
        json == from_json_bytes(buf1)
        env  == RoundtripEnvelope_decode(json.data)
        dec  == symmetric_decrypt(key, env.data)
        read_len == Min(Len(dec.data), Len(buf))
        buf2 == Overwrite(buf1, dec.data, read_len)
        out(res, er, rl, b, used) ==
            [res |-> res, encrypted_read |-> er, read_len |-> rl, buf |-> b,
             used |-> used]
    IN IF ~r.ok THEN out("err", 0, 0, buf, 0)
       ELSE IF r.n = 0 THEN out("ok", 0, 0, buf1, 0)
       ELSE IF ~json.ok \/ ~env.ok \/ ~dec.ok THEN out("err", 0, 0, buf1, r.n)
       ELSE IF read_len = 0 THEN out("ok", 0, 0, buf2, r.n)
       ELSE out("ok", r.n, read_len, buf2, r.n)

(***************************************************************************)
(* Inputs of the model.                                                    *)
(***************************************************************************)
Keys == {90, 165}

SenderSecrets == {NoSecret, <<90>>}

ReceiverSecrets == {NoSecret} \cup {<<k>> : k \in Keys}

\* The nonce of an encryption is fresh: no two envelopes on the stream share it
FreshNonce(n) == (3 + 197 * n) % 256

Fails == {"none", "format", "encrypt", "io"}

\* A payload one byte longer than a control frame may carry
BigPayload == Fill(MaxControlPayload + 1, 255)

\* Application data that is itself an envelope: a Ping frame under key 90
EnvelopeOfPing ==
    to_json_bytes(RoundtripEnvelope_encode(
        symmetric_encrypt(90, 77, format_into_buf(Frame_ping(<<1>>)))))

Messages ==
    { Msg("Text", <<104, 105>>),
      Msg("Binary", <<>>),
      Msg("Ping", <<1>>),
      Msg("Ping", BigPayload),
      Msg("Pong", <<>>),
      Msg("Close", <<>>),
      MsgClose(1000, <<98>>),
      MsgFrame(MkFrame(FALSE, OpContinuation, NoMask, <<1, 2>>)),
      MsgFrame(MkFrame(FALSE, OpPing, NoMask, <<>>)),
      MsgFrame(MkFrame(TRUE, OpBinary, <<1, 2, 3, 4>>, <<7, 8>>)),
      Msg("Binary", EnvelopeOfPing) }

\* The key of a peer that writes envelopes of its own
PeerKeys == {90}

\* Two frames in one plaintext
TwoFrames == format_into_buf(Frame_ping(<<1>>)) \o format_into_buf(Frame_pong(<<>>))

\* Plaintexts a peer holding the key may put in an envelope: nothing, a
\* prefix of a frame, a malformed frame, a frame followed by more bytes, a
\* frame followed by another frame
PeerPlaintexts ==
    { <<>>,
      <<130, 2, 5>>,
      <<255, 0>>,
      format_into_buf(Frame_ping(<<1>>)) \o <<9, 9>>,
      TwoFrames }

\* Bytes that are no complete frame: a truncated header, a truncated
\* payload, a header with a reserved bit
RawBytes == { <<130, 3, 1>>, <<193, 0>> }

(***************************************************************************)
(* State.                                                                  *)
(***************************************************************************)
VARIABLES
    shared_secret,  \* [snd, rcv]: the key setting of the two streamers
    stream,         \* the bytes written to the underlying stream so far
    flushedLen,     \* how many of them a successful flush has covered
    rpos,           \* how many of them the receiver's frame socket consumed
    log,            \* history: one entry per write that reached the stream
    delivered,      \* history: the frames the receiver's read() returned
    last,           \* history: the last operation and its result
    layer8_stream,  \* a Layer8Stream: its fields and the cursor it wraps
    stream_hist,    \* history: its successful writes and its last operation
    conn,           \* one connection of the ping scenario: both directions
    conn_hist,      \* history: requests, reads of the server, replies, reads of the client
    fuzz,           \* one read() over a given inbound byte sequence, step by step
    conns           \* the connections of a server with one worker each

streamerVars == <<shared_secret, stream, flushedLen, rpos, log, delivered, last>>

layer8StreamVars == <<layer8_stream, stream_hist>>

connVars == <<conn, conn_hist>>

fuzzVars == <<fuzz>>

connsVars == <<conns>>

vars == <<streamerVars, layer8StreamVars, connVars, fuzzVars, connsVars>>

LastRec(op, res, frame, err, idx, used, flushCalled, flushOk) ==
    [op |-> op, res |-> res, frame |-> frame, err |-> err, idx |-> idx,
     used |-> used, flushCalled |-> flushCalled, flushOk |-> flushOk,
     msg |-> NoMessage, socketWrites |-> 0]

LogEntry(origin, secret, inner, handed, plain, bytes) ==
    [origin |-> origin, secret |-> secret, inner |-> inner, handed |-> handed,
     plain |-> plain, start |-> Len(stream), len |-> Len(bytes),
     tampered |-> FALSE]

\* Layer8Stream::new_with_seekable (lines 34-36) over a cursor at position 0
new_with_seekable(data, key) ==
    [stream |-> [data |-> data, pos |-> 0], shared_secret |-> key,
     written_len |-> 0, read_len |-> 0]

StreamLast(op, res, n, buf, payload, pos, exact) ==
    [op |-> op, res |-> res, n |-> n, buf |-> buf, payload |-> payload,
     pos |-> pos, exact |-> exact]

NoStreamHist ==
    [log |-> <<>>, reads |-> 0,
     last |-> StreamLast("init", "ok", 0, <<>>, <<>>, 0, TRUE)]

\* The ping scenario before the first message (tests/layer8.rs, lines 29-31
\* and 46-50): both ends hold the key, nothing is in flight, the server
\* is about to read.  srv_pos and cli_pos count the writes already read.
NewConn(key) ==
    [key |-> key, c2s |-> <<>>, s2c |-> <<>>, srv_pos |-> 0, cli_pos |-> 0,
     pc |-> "read", msg |-> Msg("None", <<>>)]

\* sends and reads hold the values of WebSocket_send and WebSocket_read on
\* the messages of the scenario, computed once when the connection is set up
NoConnHist ==
    [sent |-> <<>>, served |-> <<>>, replies |-> <<>>, got |-> <<>>,
     sends |-> {}, reads |-> {}]

\* A read() in progress over an inbound byte sequence: the bytes the
\* underlying stream still holds, the frame socket's buffer, where the call
\* stands ("read": in frame_socket.read, line 95; "unwrap": at line 103 with
\* the outer frame; "done": returned) and what it returned
NewFuzz(input, secret) ==
    [input |-> input, secret |-> secret, rest |-> input, in_buffer |-> <<>>,
     pc |-> "read", outer |-> NoFrame, turns |-> 0,
     res |-> "", frame |-> NoFrame, err |-> ""]

NoFuzz == [NewFuzz(<<>>, NoSecret) EXCEPT !.pc = "done", !.res = "none"]

\* The connections a server accepts (tests/layer8.rs, lines 43-47): each has
\* its stream, written by its client and read by its worker, both holding a
\* copy of the key.  wire is the bytes the client's streamer has written,
\* rpos what the worker's streamer has consumed; sent, got and errs are the
\* history of the messages sent, the frames read and the reads that failed.
Conns == {"A", "B"}

NewWorker(key) ==
    [key |-> key, wire |-> <<>>, rpos |-> 0, sent |-> <<>>, got |-> <<>>, errs |-> 0]

NoConns == [c \in Conns |-> NewWorker(90)]

InitStreamer ==
    /\ stream = <<>>
    /\ flushedLen = 0
    /\ rpos = 0
    /\ log = <<>>
    /\ delivered = <<>>
    /\ last = LastRec("init", "ok", NoFrame, "", 0, 0, FALSE, FALSE)

Init ==
    /\ shared_secret \in [snd : SenderSecrets, rcv : ReceiverSecrets]
    /\ InitStreamer
    /\ layer8_stream = new_with_seekable(<<>>, 90)
    /\ stream_hist = NoStreamHist
    /\ conn = NewConn(90)
    /\ conn_hist = NoConnHist
    /\ fuzz = NoFuzz
    /\ conns = NoConns

\* The effect of a write or send outcome r on the stream and the history
Written(op, r, flushOk) ==
    /\ stream' = stream \o r.w.bytes
    /\ log' = IF r.w.res = "ok"
              THEN Append(log, LogEntry(op, shared_secret.snd, r.w.inner, r.w.handed,
                                        format_into_buf(r.w.inner), r.w.bytes))
              ELSE log
    /\ flushedLen' = IF r.flushed THEN Len(stream') ELSE flushedLen
    /\ last' = [LastRec(op, r.res, NoFrame, r.w.err, Len(log'), 0, r.flushCalled,
                        r.flushCalled /\ flushOk)
                   EXCEPT !.socketWrites = r.w.socketWrites]
    /\ shared_secret' = [shared_secret EXCEPT !.snd = shared_secret_after(@, r.res)]
    /\ UNCHANGED <<rpos, delivered>>
    /\ UNCHANGED <<layer8StreamVars, connVars, fuzzVars, connsVars>>

Send(message, fail, flushOk) ==
    /\ Len(log) < MaxMsgs
    /\ Written("send",
               send(message, shared_secret.snd, FreshNonce(Len(log)), fail, flushOk),
               flushOk)

Write(message, fail) ==
    /\ Len(log) < MaxMsgs
    /\ Written("write",
               write(message, shared_secret.snd, FreshNonce(Len(log)), fail), FALSE)

Flush(flushOk) ==
    LET r == flush(flushOk) IN
    /\ flushedLen' = IF r.flushed THEN Len(stream) ELSE flushedLen
    /\ last' = LastRec("flush", r.res, NoFrame, "", 0, 0, TRUE, flushOk)
    /\ shared_secret' = [shared_secret EXCEPT !.snd = shared_secret_after(@, r.res)]
    /\ UNCHANGED <<stream, rpos, log, delivered>>
    /\ UNCHANGED <<layer8StreamVars, connVars, fuzzVars, connsVars>>

\* The log entry that starts where the receiver stands, 0 if there is none
EntryAt(pos) ==
    IF \E i \in 1..Len(log) : log[i].start = pos
    THEN CHOOSE i \in 1..Len(log) : log[i].start = pos
    ELSE 0

Read ==
    LET r == read_message(Drop(stream, rpos), shared_secret.rcv) IN
    /\ rpos' = rpos + r.used
    /\ delivered' = IF r.res = "some" THEN Append(delivered, r.frame) ELSE delivered
    /\ last' = [LastRec("read", r.res, r.frame, r.err, EntryAt(rpos), r.used,
                        FALSE, FALSE) EXCEPT !.msg = r.msg]
    /\ shared_secret' = [shared_secret EXCEPT !.rcv = shared_secret_after(@, r.res)]
    /\ UNCHANGED <<stream, flushedLen, log>>
    /\ UNCHANGED <<layer8StreamVars, connVars, fuzzVars, connsVars>>

\* A peer that holds a key wraps bytes of its own choice in an outer frame
PeerEnvelope(key, data) ==
    LET outer == Frame_message(
                     to_json_bytes(RoundtripEnvelope_encode(
                         symmetric_encrypt(key, FreshNonce(Len(log)), data))),
                     OpBinary, TRUE)
        bytes == format_into_buf(outer)
    IN
    /\ Len(log) < MaxMsgs
    /\ stream' = stream \o bytes
    /\ log' = Append(log, LogEntry("peer", <<key>>, NoFrame, outer, data, bytes))
    /\ last' = LastRec("peer", "ok", NoFrame, "", Len(log'), 0, FALSE, FALSE)
    /\ UNCHANGED <<shared_secret, flushedLen, rpos, delivered>>
    /\ UNCHANGED <<layer8StreamVars, connVars, fuzzVars, connsVars>>

\* The inbound stream carries bytes that are not a complete frame
PeerRaw(bytes) ==
    /\ Len(log) < MaxMsgs
    /\ stream' = stream \o bytes
    /\ log' = Append(log, LogEntry("raw", NoSecret, NoFrame, NoFrame, bytes, bytes))
    /\ last' = LastRec("raw", "ok", NoFrame, "", Len(log'), 0, FALSE, FALSE)
    /\ UNCHANGED <<shared_secret, flushedLen, rpos, delivered>>
    /\ UNCHANGED <<layer8StreamVars, connVars, fuzzVars, connsVars>>

Next ==
    \/ \E m \in Messages, f \in Fails, ok \in BOOLEAN : Send(m, f, ok)
    \/ \E m \in Messages, f \in Fails : Write(m, f)
    \/ \E ok \in BOOLEAN : Flush(ok)
    \/ Read
    \/ \E k \in PeerKeys, d \in PeerPlaintexts : PeerEnvelope(k, d)
    \/ \E b \in RawBytes : PeerRaw(b)

Spec == Init /\ [][Next]_vars

(***************************************************************************)
(* Behaviours in which the stream is tampered with between the write and   *)
(* the read: both streamers hold a key, and one bit of the payload of one  *)
(* outer frame that has not been read yet is flipped.                      *)
(***************************************************************************)
TamperBits == {1, 32}

FlipBit(b, w) == IF (b \div w) % 2 = 1 THEN b - w ELSE b + w

InitTamper ==
    /\ Init
    /\ shared_secret.snd # NoSecret
    /\ shared_secret.rcv # NoSecret

Tamper(i, pos, w) ==
    LET at == log[i].start + (log[i].len - Len(log[i].handed.payload)) + pos IN
    /\ \A j \in 1..Len(log) : ~log[j].tampered
    /\ log[i].start >= rpos
    /\ stream' = [stream EXCEPT ![at] = FlipBit(@, w)]
    /\ log' = [log EXCEPT ![i].tampered = TRUE]
    /\ last' = LastRec("tamper", "ok", NoFrame, "", i, 0, FALSE, FALSE)
    /\ UNCHANGED <<shared_secret, flushedLen, rpos, delivered>>
    /\ UNCHANGED <<layer8StreamVars, connVars, fuzzVars, connsVars>>

NextTamper ==
    \/ \E m \in Messages, ok \in BOOLEAN :
          Len(log) < MaxTamperMsgs /\ Send(m, "none", ok)
    \/ \E m \in Messages : Len(log) < MaxTamperMsgs /\ Write(m, "none")
    \/ \E i \in 1..Len(log) :
          \E pos \in 1..Len(log[i].handed.payload), w \in TamperBits :
             Tamper(i, pos, w)
    \/ Read

SpecTamper == InitTamper /\ [][NextTamper]_vars

(***************************************************************************)
(* Behaviours of a Layer8Stream over a cursor that starts empty            *)
(* (tests::test_stream): write, seek to the start, read, flush.            *)
(***************************************************************************)
StreamPayloads == { <<>>, <<34>>, <<72, 105>>, <<72, 101, 108, 108, 111>> }

StreamFails == {"none", "encrypt", "io"}

\* Prior content of a caller's buffer: zeroes, or the byte '}'
BufFill == {0, 125}

\* Lengths of a caller's buffer: empty, the length of the last envelope
\* written, longer than it
BufLens == {0, layer8_stream.written_len, layer8_stream.written_len + 2}

InitStream ==
    /\ shared_secret = [snd |-> NoSecret, rcv |-> NoSecret]
    /\ InitStreamer
    /\ layer8_stream \in {new_with_seekable(<<>>, k) : k \in Keys}
    /\ stream_hist = NoStreamHist
    /\ conn = NewConn(90)
    /\ conn_hist = NoConnHist
    /\ fuzz = NoFuzz
    /\ conns = NoConns

\* Write::write (lines 147-152) over Cursor::write at the cursor's position
StreamWrite(p, fail, short) ==
    LET ls   == layer8_stream
        r    == common_write(p, ls.shared_secret, FreshNonce(Len(stream_hist.log)),
                             fail, short)
        at   == ls.stream.pos
        data == SubSeq(ls.stream.data, 1, at) \o r.bytes
                  \o Drop(ls.stream.data, at + Len(r.bytes))
    IN
    /\ Len(stream_hist.log) < MaxStreamWrites
    /\ layer8_stream' =
          [ls EXCEPT !.stream = [data |-> data, pos |-> at + Len(r.bytes)],
                     !.written_len = IF r.res = "ok" THEN r.encrypted_written ELSE @]
    /\ stream_hist' =
          [stream_hist EXCEPT
           !.log  = IF r.bytes # <<>>
                    THEN Append(stream_hist.log,
                                [payload |-> p, start |-> at, len |-> Len(r.bytes),
                                 ok |-> r.res = "ok"])
                    ELSE stream_hist.log,
           !.last = StreamLast("write", r.res, r.reported, <<>>, p, at,
                               fail = "none" /\ ~short)]
    /\ UNCHANGED <<streamerVars, connVars, fuzzVars, connsVars>>

\* Read::read (lines 126-132) into a buffer of len bytes, each equal to fill
StreamRead(len, fill, fail, short) ==
    LET ls == layer8_stream
        r  == common_read(Fill(len, fill), ls.shared_secret,
                          Drop(ls.stream.data, ls.stream.pos), fail, short)
    IN
    /\ stream_hist.reads < MaxStreamReads
    /\ layer8_stream' =
          [ls EXCEPT !.stream.pos = @ + r.used,
                     !.read_len = IF r.res = "ok" THEN r.encrypted_read ELSE @]
    /\ stream_hist' =
          [stream_hist EXCEPT
              !.reads = @ + 1,
              !.last = StreamLast("read", r.res, r.read_len, r.buf, <<>>,
                                  ls.stream.pos,
                                  fail = "none"
                                    /\ r.used = Min(len, Len(ls.stream.data) - ls.stream.pos))]
    /\ UNCHANGED <<streamerVars, connVars, fuzzVars, connsVars>>

\* Seek::seek (lines 160-164) with SeekFrom::Start(0)
StreamSeek ==
    /\ layer8_stream' = [layer8_stream EXCEPT !.stream.pos = 0]
    /\ stream_hist' =
          [stream_hist EXCEPT !.last = StreamLast("seek", "ok", 0, <<>>, <<>>, 0, TRUE)]
    /\ UNCHANGED <<streamerVars, connVars, fuzzVars, connsVars>>

\* Write::flush (lines 154-156): the flush of the underlying stream
StreamFlush(flushOk) ==
    /\ stream_hist' =
          [stream_hist EXCEPT
              !.last = StreamLast("flush", IF flushOk THEN "ok" ELSE "err", 0, <<>>,
                                  <<>>, layer8_stream.stream.pos, TRUE)]
    /\ UNCHANGED <<layer8_stream, streamerVars, connVars, fuzzVars, connsVars>>

NextStream ==
    \/ \E p \in StreamPayloads, f \in StreamFails, short \in BOOLEAN :
          StreamWrite(p, f, short)
    \/ \E len \in BufLens, fill \in BufFill, f \in {"none", "io"}, short \in BOOLEAN :
          StreamRead(len, fill, f, short)
    \/ StreamSeek
    \/ \E ok \in BOOLEAN : StreamFlush(ok)

SpecStream == InitStream /\ [][NextStream]_vars

(***************************************************************************)
(* The ping scenario (src/tests/layer8.rs): a client and the server        *)
(* connection of layer8_server_conn, both holding the same key, over a     *)
(* reliable connection.  Each direction holds the writes in flight, in     *)
(* order, each as the bytes of its outer frame; a read takes the oldest    *)
(* one.  The server worker loops: read a message, reply according to its   *)
(* kind.                                                                   *)
(***************************************************************************)
\* The Message a frame decomposes into, by its opcode
FrameToMessage(f) ==
    CASE f.opcode = OpText   -> Msg("Text", f.payload)
      [] f.opcode = OpBinary -> Msg("Binary", f.payload)
      [] f.opcode = OpPing   -> Msg("Ping", f.payload)
      [] f.opcode = OpPong   -> Msg("Pong", f.payload)
      [] f.opcode = OpClose  ->
            IF Len(f.payload) >= 2
            THEN MsgClose(256 * f.payload[1] + f.payload[2], Drop(f.payload, 2))
            ELSE Msg("Close", <<>>)
      [] OTHER               -> MsgFrame(f)

\* WebSocket::read with a shared secret set: one outer frame is read and
\* unwrapped, and the inner frame is returned as the Message it carries
WebSocket_read(pending, key) ==
    LET r == read_message(pending, <<key>>)
    IN [res |-> r.res, used |-> r.used,
        msg |-> IF r.res = "some" THEN FrameToMessage(r.frame) ELSE Msg("None", <<>>)]

\* WebSocket::send with a shared secret set: the bytes put on the connection
WebSocket_send(message, key, nonce) == send(message, <<key>>, nonce, "none", TRUE).w.bytes

\* b"pong from layer8" (line 63)
PongFromLayer8 ==
    <<112, 111, 110, 103, 32, 102, 114, 111, 109, 32, 108, 97, 121, 101, 114, 56>>

is_ping(msg) == msg.kind = "Ping"

is_binary(msg) == msg.kind = "Binary"

is_text(msg) == msg.kind = "Text"

\* Mutant: the server echoes a Ping instead of answering it with a Pong
Reply_EchoesPing(msg) ==
    IF is_ping(msg) \/ is_binary(msg) \/ is_text(msg) THEN <<msg>> ELSE <<>>

\* Lines 59-66: the messages the server sends for a message it has read
Reply(msg) ==
    IF is_ping(msg) THEN <<Msg("Pong", PongFromLayer8)>>
    ELSE IF is_binary(msg) \/ is_text(msg) THEN <<msg>>
    ELSE <<>>

\* b"ping from layer8" (line 33) and other messages a client may send
Requests ==
    { Msg("Ping", <<112, 105, 110, 103, 32, 102, 114, 111, 109, 32, 108, 97, 121,
                    101, 114, 56>>),
      Msg("Text", <<104, 105>>),
      Msg("Binary", <<7>>),
      Msg("Pong", <<>>),
      MsgClose(1000, <<>>) }

\* The values of WebSocket_send on the messages and nonces of the scenario,
\* and of WebSocket_read on the bytes they give
Sendable == Requests \cup {Msg("Pong", PongFromLayer8)}

NonceIndex == (0..MaxRequests) \cup {100 + i : i \in 0..MaxRequests}

SendTable(key) ==
    { [n |-> n, msg |-> m, bytes |-> WebSocket_send(m, key, FreshNonce(n))] :
        n \in NonceIndex, m \in Sendable }

ReadTable(key) ==
    { [bytes |-> e.bytes, r |-> WebSocket_read(e.bytes, key)] : e \in SendTable(key) }

SentBytes(m, n) == (CHOOSE e \in conn_hist.sends : e.n = n /\ e.msg = m).bytes

ReadBytes(bytes) == (CHOOSE e \in conn_hist.reads : e.bytes = bytes).r

InitPing ==
    /\ shared_secret = [snd |-> NoSecret, rcv |-> NoSecret]
    /\ InitStreamer
    /\ layer8_stream = new_with_seekable(<<>>, 90)
    /\ stream_hist = NoStreamHist
    /\ conn \in {NewConn(k) : k \in Keys}
    /\ conn_hist = [NoConnHist EXCEPT !.sends = SendTable(conn.key),
                                      !.reads = ReadTable(conn.key)]
    /\ fuzz = NoFuzz
    /\ conns = NoConns

\* socket.send(message) of the client (line 33)
ClientSend(m) ==
    /\ Len(conn_hist.sent) < MaxRequests
    /\ conn' = [conn EXCEPT
                   !.c2s = Append(@, SentBytes(m, Len(conn_hist.sent)))]
    /\ conn_hist' = [conn_hist EXCEPT !.sent = Append(@, m)]
    /\ UNCHANGED <<streamerVars, layer8StreamVars, fuzzVars, connsVars>>

\* websocket.read() of the server (lines 53-58): blocks until a write has
\* arrived; an error makes unwrap() panic and ends the worker
ServerRead ==
    /\ conn.pc = "read"
    /\ conn.srv_pos < Len(conn.c2s)
    /\ LET r == ReadBytes(conn.c2s[conn.srv_pos + 1]) IN
       /\ conn' = [conn EXCEPT
                      !.srv_pos = @ + 1,
                      !.msg = r.msg,
                      !.pc = IF r.res = "some" THEN "reply" ELSE "panicked"]
       /\ conn_hist' = [conn_hist EXCEPT
                           !.served = IF r.res = "some" THEN Append(@, r.msg) ELSE @]
    /\ UNCHANGED <<streamerVars, layer8StreamVars, fuzzVars, connsVars>>

RECURSIVE SendAll(_, _)
SendAll(msgs, n) ==
    IF msgs = <<>> THEN <<>>
    ELSE <<SentBytes(Head(msgs), n)>> \o SendAll(Tail(msgs), n + 1)

\* lines 59-66: the reply to the message just read, then back to read
ServerReply ==
    LET out == Reply(conn.msg) IN
    /\ conn.pc = "reply"
    /\ conn' = [conn EXCEPT
                   !.s2c = @ \o SendAll(out, 100 + Len(conn_hist.replies)),
                   !.pc = "read"]
    /\ conn_hist' = [conn_hist EXCEPT !.replies = @ \o out]
    /\ UNCHANGED <<streamerVars, layer8StreamVars, fuzzVars, connsVars>>

\* socket.read() of the client (line 35): blocks until a write has arrived
ClientRead ==
    /\ conn.cli_pos < Len(conn.s2c)
    /\ LET r == ReadBytes(conn.s2c[conn.cli_pos + 1]) IN
       /\ conn' = [conn EXCEPT !.cli_pos = @ + 1]
       /\ conn_hist' = [conn_hist EXCEPT
                           !.got = IF r.res = "some" THEN Append(@, r.msg) ELSE @]
    /\ UNCHANGED <<streamerVars, layer8StreamVars, fuzzVars, connsVars>>

NextPing ==
    \/ \E m \in Requests : ClientSend(m)
    \/ ServerRead
    \/ ServerReply
    \/ ClientRead

\* Each worker keeps running: a read returns once bytes have arrived, and
\* the server sends the reply it has decided on
SpecPing ==
    /\ InitPing /\ [][NextPing]_vars
    /\ WF_vars(ServerRead) /\ WF_vars(ServerReply) /\ WF_vars(ClientRead)

(***************************************************************************)
(* One read() over an arbitrary inbound byte sequence (the fuzz target of  *)
(* src/fuzz/fuzz_targets/read_message_client.rs: a cursor over the data,   *)
(* one read, the result dropped), with and without a key, followed through *)
(* the turns of the frame socket's loop.                                   *)
(***************************************************************************)
MaxFuzzLen == 3

\* Bytes that begin, continue or spoil a frame header: lengths 0 and 1, a
\* final Binary and a final Ping header, a header with a reserved bit, an
\* extended length marker with the mask bit
FuzzBytes == {0, 1, 130, 137, 193, 254}

RECURSIVE SeqsUpTo(_, _)
SeqsUpTo(S, n) ==
    IF n = 0 THEN {<<>>}
    ELSE LET shorter == SeqsUpTo(S, n - 1)
         IN shorter \cup {Append(q, b) : q \in shorter, b \in S}

Prefixes(bytes) == {SubSeq(bytes, 1, n) : n \in 0..Len(bytes)}

\* The stream of a keyed Ping, the stream of a plain Text followed by a
\* Pong, a plain frame whose payload is an envelope without a frame in it
WellFormedStreams ==
    { send(Msg("Ping", <<1>>), <<90>>, 3, "none", TRUE).w.bytes,
      format_into_buf(Frame_message(<<104, 105>>, OpText, TRUE))
          \o format_into_buf(Frame_pong(<<>>)),
      format_into_buf(Frame_message(
          to_json_bytes(RoundtripEnvelope_encode(symmetric_encrypt(90, 3, <<>>))),
          OpBinary, TRUE)) }

\* The inbound byte sequences tried: every short sequence of the bytes
\* above, and every prefix of a well-formed stream
FuzzInputs ==
    SeqsUpTo(FuzzBytes, MaxFuzzLen)
      \cup UNION {Prefixes(w) : w \in WellFormedStreams}

InitFuzz ==
    /\ shared_secret = [snd |-> NoSecret, rcv |-> NoSecret]
    /\ InitStreamer
    /\ layer8_stream = new_with_seekable(<<>>, 90)
    /\ stream_hist = NoStreamHist
    /\ conn = NewConn(90)
    /\ conn_hist = NoConnHist
    /\ fuzz \in {NewFuzz(input, secret) : input \in FuzzInputs, secret \in ReceiverSecrets}
    /\ conns = NoConns

FuzzDone(res, frame, err, st) ==
    [fuzz EXCEPT !.pc = "done", !.res = res, !.frame = frame, !.err = err,
                 !.in_buffer = st.in_buffer, !.rest = st.rest, !.turns = @ + 1]

\* One turn of frame_socket.read(None) at line 95, and lines 96-103 when it
\* returns
FuzzFrameRead ==
    /\ fuzz.pc = "read"
    /\ \E st \in {FrameSocket_read_step(fuzz.in_buffer, fuzz.rest)} : fuzz' =
          IF st.pc = "read"
          THEN [fuzz EXCEPT !.in_buffer = st.in_buffer, !.rest = st.rest,
                            !.turns = @ + 1]
          ELSE IF st.pc = "done"
          THEN FuzzDone(st.res, NoFrame, IF st.res = "err" THEN "frame" ELSE "", st)
          ELSE IF fuzz.secret = NoSecret
          THEN FuzzDone("some", st.frame, "", st)
          ELSE [fuzz EXCEPT !.pc = "unwrap", !.outer = st.frame,
                            !.in_buffer = st.in_buffer, !.rest = st.rest,
                            !.turns = @ + 1]
    /\ UNCHANGED <<streamerVars, layer8StreamVars, connVars, connsVars>>

\* Lines 103-138 with a key: the envelope, the decryption, the nested read
FuzzUnwrap ==
    /\ fuzz.pc = "unwrap"
    /\ \E u \in {Unwrap(fuzz.outer, fuzz.secret)} :
          fuzz' = [fuzz EXCEPT !.pc = "done", !.res = u.res, !.frame = u.frame,
                              !.err = u.err, !.turns = @ + 1]
    /\ UNCHANGED <<streamerVars, layer8StreamVars, connVars, connsVars>>

NextFuzz ==
    \/ FuzzFrameRead
    \/ FuzzUnwrap

\* The call runs on: nothing suspends a read() between its steps
SpecFuzz == InitFuzz /\ [][NextFuzz]_vars /\ WF_vars(NextFuzz)

(***************************************************************************)
(* A server with two connections (layer8_server_conn, lines 43-50): every  *)
(* accepted stream is moved into a worker of its own together with a clone *)
(* of the key.  The clients write and the workers read in any order.       *)
(***************************************************************************)
MaxConnMsgs == 2

\* What the client of a connection sends: the payloads name the connection
ConnMessages(c) ==
    IF c = "A"
    THEN {Msg("Text", <<97>>), Msg("Ping", <<1>>)}
    ELSE {Msg("Text", <<98>>), Msg("Ping", <<2>>)}

\* Mutant: every worker is handed the stream of the first connection
WorkerStream_Shared(c) == "A"

\* The stream of the streamer on connection c: the one accepted for it
\* (line 46), moved into its worker (line 45)
WorkerStream(c) == c

InitConns ==
    /\ shared_secret = [snd |-> NoSecret, rcv |-> NoSecret]
    /\ InitStreamer
    /\ layer8_stream = new_with_seekable(<<>>, 90)
    /\ stream_hist = NoStreamHist
    /\ conn = NewConn(90)
    /\ conn_hist = NoConnHist
    /\ fuzz = NoFuzz
    /\ conns \in {[c \in Conns |-> NewWorker(k)] : k \in Keys}

\* The client of connection c sends m: its streamer writes to its stream
ConnSend(c, m) ==
    LET s == WorkerStream(c)
        r == send(m, <<conns[c].key>>,
                  FreshNonce(Len(conns["A"].sent) + Len(conns["B"].sent)), "none", TRUE)
    IN
    /\ Len(conns[c].sent) < MaxConnMsgs
    /\ conns' = [[conns EXCEPT ![s].wire = @ \o r.w.bytes]
                    EXCEPT ![c].sent = Append(@, m)]
    /\ UNCHANGED <<streamerVars, layer8StreamVars, connVars, fuzzVars>>

\* The worker of connection c reads (line 53): its streamer takes the bytes
\* of its stream
ConnRead(c) ==
    LET s == WorkerStream(c)
        r == read_message(Drop(conns[s].wire, conns[s].rpos), <<conns[c].key>>)
    IN
    /\ r.res # "none"
    /\ conns' = [[conns EXCEPT ![s].rpos = @ + r.used]
                    EXCEPT ![c].got = IF r.res = "some" THEN Append(@, r.frame) ELSE @,
                           ![c].errs = IF r.res = "err" /\ @ < MaxConnMsgs
                                       THEN @ + 1 ELSE @]
    /\ UNCHANGED <<streamerVars, layer8StreamVars, connVars, fuzzVars>>

NextConns ==
    \/ \E c \in Conns : \E m \in ConnMessages(c) : ConnSend(c, m)
    \/ \E c \in Conns : ConnRead(c)

SpecConns == InitConns /\ [][NextConns]_vars

(***************************************************************************)
(* Vocabulary of the properties.                                           *)
(***************************************************************************)
\* Same opcode, same fin bit, same payload
SameFrame(f, g) == f.fin = g.fin /\ f.opcode = g.opcode /\ f.payload = g.payload

ByStreamer(i) == log[i].origin \in {"send", "write"}

\* The bytes of the stream that entry i put there
EntryBytes(i) == SubSeq(stream, log[i].start + 1, log[i].start + log[i].len)

BothKeyed == shared_secret.snd # NoSecret /\ shared_secret.rcv = shared_secret.snd

BothPlain == shared_secret.snd = NoSecret /\ shared_secret.rcv = NoSecret

\* The last operation was a read() that started at the first byte of entry i
ReadOf(i) == last.op = "read" /\ last.idx = i /\ i # 0

(***************************************************************************)
(* C1. Encrypted round trip: a message sent by send() on a streamer with   *)
(* key k and read by read() on a streamer with the same key, positioned at *)
(* the first byte send() wrote, comes back as Ok(Some(Message::Frame(f)))  *)
(* with f the frame the message converts to: same opcode, fin and payload. *)
(***************************************************************************)
C1_EncryptedRoundTrip ==
    \A i \in 1..Len(log) :
        (ReadOf(i) /\ log[i].origin = "send" /\ BothKeyed)
            => (last.res = "some" /\ SameFrame(last.frame, log[i].inner))

C1_Witness ==
    \E i \in 1..Len(log) :
        /\ ReadOf(i) /\ log[i].origin = "send" /\ BothKeyed
        /\ log[i].inner.opcode = OpClose
        /\ last.res = "some"
        /\ last.frame.payload = <<3, 232, 98>>

(***************************************************************************)
(* C2. Plaintext round trip: with no key on either side, the bytes a write *)
(* puts on the stream are the serialization of the single frame the        *)
(* message converts to, with no envelope, and read() over them returns     *)
(* Ok(Some(Message::Frame(f))) with f equal to that frame.                 *)
(***************************************************************************)
C2_PlaintextRoundTrip ==
    \A i \in 1..Len(log) :
        /\ (ByStreamer(i) /\ shared_secret.snd = NoSecret)
              => EntryBytes(i) = format_into_buf(log[i].inner)
        /\ (ReadOf(i) /\ ByStreamer(i) /\ BothPlain)
              => (last.res = "some" /\ SameFrame(last.frame, log[i].inner))

C2_Witness ==
    \E i \in 1..Len(log) :
        /\ ReadOf(i) /\ log[i].origin = "write" /\ BothPlain
        /\ log[i].inner.opcode = OpBinary
        /\ log[i].inner.mask # NoMask
        /\ last.res = "some"
        /\ last.frame.payload = <<7, 8>>

(***************************************************************************)
(* C3. FIFO, one message per frame: when every write on the stream came    *)
(* from send/write of the one sending streamer, the stream holds exactly   *)
(* one outer frame per message, in the order of the calls; and a receiver  *)
(* with the same key setting has got, after its successful reads, the      *)
(* frames of the first messages in that order, one per outer frame it      *)
(* consumed: none lost, duplicated, merged or reordered.                   *)
(***************************************************************************)
RECURSIVE FramesOn(_)
FramesOn(bs) ==
    LET p == ParseFrame(bs)
    IN IF p.status = "ok" THEN <<p.frame>> \o FramesOn(Drop(bs, p.used)) ELSE <<>>

AllByStreamer == \A i \in 1..Len(log) : ByStreamer(i)

EndOf(i) == IF i = 0 THEN 0 ELSE log[i].start + log[i].len

C3_Fifo ==
    AllByStreamer =>
        /\ Len(FramesOn(stream)) = Len(log)
        /\ \A i \in 1..Len(log) : SameFrame(FramesOn(stream)[i], log[i].handed)
        /\ EndOf(Len(log)) = Len(stream)
        /\ (shared_secret.rcv = shared_secret.snd) =>
              /\ Len(delivered) <= Len(log)
              /\ \A j \in 1..Len(delivered) : SameFrame(delivered[j], log[j].inner)
              /\ rpos = EndOf(Len(delivered))

C3_Witness ==
    /\ AllByStreamer
    /\ shared_secret.rcv = shared_secret.snd
    /\ shared_secret.snd # NoSecret
    /\ Len(log) = 2 /\ Len(delivered) = 2
    /\ log[1].origin = "write" /\ log[2].origin = "send"
    /\ delivered[1].opcode = OpPing /\ delivered[2].opcode = OpText
    /\ rpos = Len(stream)

(***************************************************************************)
(* C4. End of stream: read() returns Ok(None) exactly when no byte of the  *)
(* stream is pending at the receiver, with a key and without; with bytes   *)
(* pending it returns Ok(Some) or Err, never Ok(None).                     *)
(***************************************************************************)
PendingBeforeRead == Len(stream) - (rpos - last.used)

C4_EndOfStream ==
    last.op = "read" => ((last.res = "none") <=> (PendingBeforeRead = 0))

C4_Witness ==
    /\ last.op = "read" /\ last.res = "none"
    /\ shared_secret.rcv # NoSecret
    /\ Len(delivered) = 1
    /\ rpos = Len(stream)

\* bytes are pending, the read fails, and the result is an error, not None
C4_WitnessPending ==
    /\ last.op = "read" /\ last.res = "err"
    /\ PendingBeforeRead > 0
    /\ last.err \in {"frame", "nested_missing"}

(***************************************************************************)
(* C5. Tamper detection: with a key on both sides, a read() of an outer    *)
(* frame whose payload differs from the bytes the sender produced returns  *)
(* an error of the envelope parse, the envelope decode or the decryption;  *)
(* it never returns Ok(Some(..)).                                          *)
(***************************************************************************)
C5_TamperDetected ==
    \A i \in 1..Len(log) :
        (ReadOf(i) /\ log[i].tampered /\ ByStreamer(i)
            /\ shared_secret.snd # NoSecret /\ shared_secret.rcv # NoSecret)
          => (last.res = "err" /\ last.err \in {"json", "decode", "decrypt"})

\* a flipped bit that the envelope parse and decode accept: the cipher rejects it
C5_Witness ==
    \E i \in 1..Len(log) :
        /\ ReadOf(i) /\ log[i].tampered /\ ByStreamer(i)
        /\ shared_secret.rcv = shared_secret.snd
        /\ EntryBytes(i) # format_into_buf(log[i].handed)
        /\ last.res = "err" /\ last.err = "decrypt"

(***************************************************************************)
(* C6. send is write followed by flush, and a failure of either step       *)
(* surfaces: a send whose flush of the frame socket fails returns an       *)
(* error, not Ok(()).                                                      *)
(***************************************************************************)
C6_FlushFailureSurfaces ==
    (last.op = "send" /\ last.flushCalled /\ ~last.flushOk) => last.res = "err"

(***************************************************************************)
(* C7. Opaque outer frame: with a key, every frame write/send hands to the *)
(* frame socket is a final, unmasked Binary frame whose payload is an      *)
(* envelope that decodes and decrypts to the complete serialization of the *)
(* inner frame, whatever the kind of the message; the bytes put on the     *)
(* stream are that outer frame and do not contain the inner frame's bytes. *)
(***************************************************************************)
Contains(hay, needle) ==
    \E s \in 0..(Len(hay) - Len(needle)) :
        \A j \in 1..Len(needle) : hay[s + j] = needle[j]

Opened(payload, secret) ==
    LET json == from_json_bytes(payload)
        env  == RoundtripEnvelope_decode(json.data)
    IN IF json.ok /\ env.ok
       THEN symmetric_decrypt(secret[1], env.data)
       ELSE [ok |-> FALSE, data |-> <<>>]

C7_OpaqueOuterFrame ==
    \A i \in 1..Len(log) :
        (ByStreamer(i) /\ shared_secret.snd # NoSecret) =>
            /\ log[i].handed.opcode = OpBinary
            /\ log[i].handed.fin
            /\ log[i].handed.mask = NoMask
            /\ Opened(log[i].handed.payload, shared_secret.snd)
                  = [ok |-> TRUE, data |-> format_into_buf(log[i].inner)]
            /\ EntryBytes(i) = format_into_buf(log[i].handed)
            /\ ~Contains(EntryBytes(i), format_into_buf(log[i].inner))

C7_Witness ==
    \E i \in 1..Len(log) :
        /\ ByStreamer(i) /\ shared_secret.snd # NoSecret
        /\ log[i].inner.opcode = OpPing /\ ~log[i].inner.fin
        /\ log[i].handed.opcode = OpBinary /\ log[i].handed.fin
        /\ EntryBytes(i)[1] = 130

(***************************************************************************)
(* C8. As claimed: on the encrypted path every entry point, write as well  *)
(* as send, flushes the frame socket after the outer frame is written and  *)
(* before it returns Ok.                                                   *)
(***************************************************************************)
C8_EveryEntryPointFlushes ==
    (last.op \in {"send", "write"} /\ last.res = "ok"
        /\ shared_secret.snd # NoSecret) => last.flushCalled

(***************************************************************************)
(* C8, amended. On the encrypted path send calls the frame socket's flush  *)
(* after the outer frame is written and before it returns Ok, and a flush  *)
(* that succeeds covers every byte written so far; write returns without   *)
(* calling flush and leaves the flushed part of the stream as it was.      *)
(***************************************************************************)
C8_SendFlushesWriteDoesNot ==
    /\ [](shared_secret.snd # NoSecret =>
            /\ (last.op = "send" /\ last.res = "ok") =>
                   /\ last.flushCalled
                   /\ last.flushOk => flushedLen = Len(stream)
            /\ last.op = "write" => ~last.flushCalled)
    /\ [][(shared_secret.snd # NoSecret /\ last'.op = "write")
             => flushedLen' = flushedLen]_vars

C8_Witness ==
    /\ shared_secret.snd # NoSecret
    /\ last.op = "send" /\ last.res = "ok" /\ last.flushCalled /\ last.flushOk
    /\ Len(log) = 2 /\ log[1].origin = "write"
    /\ flushedLen = Len(stream)

(***************************************************************************)
(* C9. Nested frame missing: with a key, when the decrypted buffer of an   *)
(* outer frame is empty or holds only a prefix of a frame, read() returns  *)
(* an error: not Ok(None), no partial frame, and it consumes that outer    *)
(* frame only, reading no further outer frame to complete the nested one.  *)
(***************************************************************************)
C9_NestedFrameMissing ==
    \A i \in 1..Len(log) :
        (/\ ReadOf(i) /\ log[i].origin = "peer"
         /\ shared_secret.rcv = log[i].secret
         /\ ParseFrame(log[i].plain).status \in {"empty", "incomplete"})
          => /\ last.res = "err"
             /\ last.err \in {"nested_missing", "nested_read"}
             /\ last.frame = NoFrame
             /\ last.used = log[i].len
             /\ rpos = EndOf(i)

C9_Witness ==
    /\ ReadOf(1) /\ log[1].origin = "peer"
    /\ shared_secret.rcv = log[1].secret
    /\ log[1].plain = <<130, 2, 5>>
    /\ Len(log) = 2 /\ ByStreamer(2)
    /\ last.res = "err"
    /\ rpos = EndOf(1)

\* the decrypted buffer is empty
C9_WitnessEmpty ==
    /\ ReadOf(1) /\ log[1].origin = "peer"
    /\ shared_secret.rcv = log[1].secret
    /\ log[1].plain = <<>>
    /\ last.res = "err" /\ last.err = "nested_missing"

(***************************************************************************)
(* C10. Control-frame constraint: every control frame (Ping, Pong, Close)  *)
(* that write/send puts on the stream, directly or as an inner frame, has  *)
(* a payload of at most 125 bytes and fin = true.                          *)
(***************************************************************************)
C10_ControlFramesBounded ==
    \A i \in 1..Len(log) :
        (ByStreamer(i) /\ IsControl(log[i].inner.opcode)) =>
            /\ Len(log[i].inner.payload) <= MaxControlPayload
            /\ log[i].inner.fin

(***************************************************************************)
(* C11. Read-size ceiling: a read() never returns a frame longer than the  *)
(* configured read-size limit; an outer frame, or a nested inner frame,    *)
(* longer than the limit makes read() fail.                                *)
(***************************************************************************)
C11_ReadSizeCeiling ==
    (last.op = "read" /\ last.res = "some") =>
        /\ last.used <= max_read_size
        /\ Len(format_into_buf(last.frame)) <= max_read_size

(***************************************************************************)
(* C12. Fragmentation policy on the encrypted path: with a key, a frame    *)
(* with the Continuation opcode or a data frame with fin = false is never  *)
(* wrapped into an outer frame by write/send, and read() never returns an  *)
(* inner frame that is a fragment.                                         *)
(***************************************************************************)
IsFragment(f) == f.opcode = OpContinuation \/ (~IsControl(f.opcode) /\ ~f.fin)

C12_FragmentsRejected ==
    /\ \A i \in 1..Len(log) :
          (ByStreamer(i) /\ log[i].secret # NoSecret) => ~IsFragment(log[i].inner)
    /\ (last.op = "read" /\ last.res = "some" /\ shared_secret.rcv # NoSecret)
          => ~IsFragment(last.frame)

(***************************************************************************)
(* C13. Layer8Stream round trip: after one write(p) of a non-empty p on a  *)
(* Layer8Stream over an empty buffer and a seek to position 0, a read into *)
(* a buffer of written_len bytes returns n = len(p) and leaves p in        *)
(* buf[..n].                                                               *)
(***************************************************************************)
OneWriteThenRead ==
    /\ stream_hist.last.op = "read" /\ stream_hist.last.exact
    /\ stream_hist.last.pos = 0
    /\ Len(stream_hist.log) = 1
    /\ stream_hist.log[1].ok /\ stream_hist.log[1].start = 0
    /\ Len(layer8_stream.stream.data) = stream_hist.log[1].len
    /\ layer8_stream.written_len = stream_hist.log[1].len
    /\ Len(stream_hist.last.buf) = layer8_stream.written_len

C13_StreamRoundTrip ==
    OneWriteThenRead =>
        /\ stream_hist.last.res = "ok"
        /\ stream_hist.last.n = Len(stream_hist.log[1].payload)
        /\ SubSeq(stream_hist.last.buf, 1, stream_hist.last.n)
              = stream_hist.log[1].payload

C13_Witness ==
    /\ OneWriteThenRead
    /\ stream_hist.log[1].payload = <<72, 101, 108, 108, 111>>
    /\ stream_hist.last.n = 5
    /\ Len(stream_hist.last.buf) > 5

(***************************************************************************)
(* C14. Layer8Stream reports plaintext counts: a successful write(p)       *)
(* returns len(p), while the bytes put on the underlying stream, counted   *)
(* in written_len, are the envelope and more than len(p) for a non-empty   *)
(* p; a successful read of an envelope returns the length of the decrypted *)
(* payload, which is less than the number of encrypted bytes read.         *)
(***************************************************************************)
\* The last operation read, in full, the envelope of write i from its start
StreamReadOf(i) ==
    /\ stream_hist.last.op = "read" /\ stream_hist.last.exact
    /\ stream_hist.log[i].ok
    /\ stream_hist.last.pos = stream_hist.log[i].start
    /\ Len(stream_hist.last.buf) = stream_hist.log[i].len
    /\ \A j \in 1..Len(stream_hist.log) :
          j > i => stream_hist.log[j].start >= stream_hist.log[i].start + stream_hist.log[i].len

C14_PlaintextCounts ==
    /\ (stream_hist.last.op = "write" /\ stream_hist.last.res = "ok") =>
          /\ stream_hist.last.n = Len(stream_hist.last.payload)
          /\ stream_hist.last.payload # <<>> =>
                /\ layer8_stream.written_len
                      = stream_hist.log[Len(stream_hist.log)].len
                /\ layer8_stream.written_len
                      = layer8_stream.stream.pos - stream_hist.last.pos
                /\ layer8_stream.written_len > Len(stream_hist.last.payload)
    /\ (stream_hist.last.op = "read" /\ stream_hist.last.res = "ok"
          /\ stream_hist.last.n > 0) =>
             stream_hist.last.n < layer8_stream.read_len
    /\ \A i \in 1..Len(stream_hist.log) :
          StreamReadOf(i) =>
             /\ stream_hist.last.res = "ok"
             /\ stream_hist.last.n = Len(stream_hist.log[i].payload)
             /\ layer8_stream.read_len = stream_hist.log[i].len

C14_Witness ==
    /\ Len(stream_hist.log) = 2
    /\ StreamReadOf(2)
    /\ stream_hist.log[2].payload = <<72, 105>>
    /\ stream_hist.last.n = 2
    /\ layer8_stream.read_len > 2
    /\ layer8_stream.written_len = layer8_stream.read_len

(***************************************************************************)
(* C15. Server reply protocol of the ping scenario, both ends holding the  *)
(* same key: the server reads the client's messages in the order they were *)
(* sent; for every message it has read and handled, a Ping is answered by  *)
(* exactly one Pong, a Text or Binary message by exactly one message with  *)
(* the same content, any other message by nothing, the replies in the      *)
(* order of the requests; the client reads the replies in that order; and  *)
(* a client that has sent a Ping and has read the replies to its earlier   *)
(* messages eventually gets the Pong from its next read().                 *)
(***************************************************************************)
RECURSIVE Answers(_, _)
Answers(reqs, reps) ==
    IF reqs = <<>> THEN reps = <<>>
    ELSE IF Head(reqs).kind = "Ping"
    THEN reps # <<>> /\ Head(reps).kind = "Pong" /\ Answers(Tail(reqs), Tail(reps))
    ELSE IF Head(reqs).kind \in {"Text", "Binary"}
    THEN reps # <<>> /\ Head(reps) = Head(reqs) /\ Answers(Tail(reqs), Tail(reps))
    ELSE Answers(Tail(reqs), reps)

\* The number of replies due to the first n messages sent
RECURSIVE RepliesDue(_)
RepliesDue(n) ==
    IF n = 0 THEN 0
    ELSE RepliesDue(n - 1)
           + (IF conn_hist.sent[n].kind \in {"Ping", "Text", "Binary"} THEN 1 ELSE 0)

Handled == IF conn.pc = "reply" THEN Len(conn_hist.served) - 1 ELSE Len(conn_hist.served)

IsPrefix(a, b) == Len(a) <= Len(b) /\ a = SubSeq(b, 1, Len(a))

ReplyProtocol ==
    /\ conn.pc # "panicked"
    /\ IsPrefix(conn_hist.served, conn_hist.sent)
    /\ Answers(SubSeq(conn_hist.served, 1, Handled), conn_hist.replies)
    /\ Len(conn.s2c) = Len(conn_hist.replies)
    /\ \A i \in 1..Len(conn.c2s) :
          ReadBytes(conn.c2s[i]).used = Len(conn.c2s[i])
    /\ \A i \in 1..Len(conn.s2c) :
          ReadBytes(conn.s2c[i]).used = Len(conn.s2c[i])
    /\ IsPrefix(conn_hist.got, conn_hist.replies)

\* The j-th message sent is a Ping and the replies to the earlier ones are read
PingSent(j) ==
    IF Len(conn_hist.sent) >= j
    THEN conn_hist.sent[j].kind = "Ping" /\ Len(conn_hist.got) = RepliesDue(j - 1)
    ELSE FALSE

\* The read after them returned the Pong
PongGot(j) ==
    IF Len(conn_hist.sent) >= j /\ Len(conn_hist.got) > RepliesDue(j - 1)
    THEN conn_hist.got[RepliesDue(j - 1) + 1] = Msg("Pong", PongFromLayer8)
    ELSE FALSE

C16_ReadReturnsFrame ==
    (last.op = "read" /\ last.res = "some") =>
        /\ last.msg = MsgFrame(last.frame)
        /\ last.msg.kind = "Frame"
        /\ shared_secret.rcv = NoSecret =>
               last.frame = ParseFrame(Drop(stream, rpos - last.used)).frame
        /\ \A i \in 1..Len(log) :
               (ReadOf(i) /\ ByStreamer(i) /\ BothKeyed) =>
                   /\ SameFrame(last.frame, log[i].inner)
                   /\ log[i].handed.opcode = OpBinary
                   /\ log[i].inner.opcode # OpBinary =>
                          last.frame.opcode # log[i].handed.opcode

\* A Ping sent with the key comes back as Message::Frame with opcode Ping
C16_Witness ==
    /\ BothKeyed
    /\ ReadOf(1)
    /\ log[1].origin = "send"
    /\ log[1].inner = Frame_ping(<<1>>)
    /\ log[1].handed.opcode = OpBinary
    /\ last.res = "some"
    /\ last.msg.kind = "Frame"
    /\ last.msg.frame.opcode = OpPing

(***************************************************************************)
(* C17. The nested parse is isolated from the outer socket: a read() with  *)
(* a key that gets a frame from the frame socket consumes exactly that one *)
(* outer frame, whatever the envelope holds; the frame it returns is the   *)
(* first frame of the decrypted buffer, parsed from byte 0; the receiver   *)
(* then stands at the next outer frame; and an outer frame yields at most  *)
(* one delivered frame, so bytes after the first inner frame are delivered *)
(* by no read.                                                             *)
(***************************************************************************)
\* The entries whose bytes the receiver has started to consume
EntriesBegun == {i \in 1..Len(log) : log[i].start < rpos}

C17_NestedParseIsolated ==
    shared_secret.rcv # NoSecret =>
        /\ (last.op = "read" /\ (last.res = "some" \/ last.err \notin {"", "frame"})) =>
               last.used = ParseFrame(Drop(stream, rpos - last.used)).used
        /\ \A i \in 1..Len(log) :
               (ReadOf(i) /\ log[i].origin # "raw" /\ log[i].secret = shared_secret.rcv) =>
                   /\ last.used = log[i].len
                   /\ rpos = log[i].start + log[i].len
                   /\ last.res = "some" =>
                          /\ ParseFrame(log[i].plain).status = "ok"
                          /\ last.frame = ParseFrame(log[i].plain).frame
                   /\ last.res # "some" => ParseFrame(log[i].plain).status # "ok"
        /\ Len(delivered) <= Cardinality(EntriesBegun)

\* An envelope holding two frames, then a sent message: the reads deliver
\* the first frame of the envelope and then the sent message
C17_Witness ==
    /\ shared_secret.rcv = <<90>>
    /\ Len(log) = 2
    /\ log[1].origin = "peer"
    /\ log[1].plain = TwoFrames
    /\ ByStreamer(2)
    /\ ReadOf(2)
    /\ last.res = "some"
    /\ delivered = <<Frame_ping(<<1>>), log[2].inner>>

(***************************************************************************)
(* C18. A failed write writes nothing: when serializing the inner frame or *)
(* encrypting it fails in write or send, the operation returns an error,   *)
(* frame_socket.write is not called, no byte reaches the stream, no flush  *)
(* is requested, and the frames written before are where they were.        *)
(***************************************************************************)
FailedBeforeSocket ==
    /\ last.op \in {"send", "write"}
    /\ last.res = "err"
    /\ last.err \in {"format", "encrypt"}

C18_FailedWriteWritesNothing ==
    [][FailedBeforeSocket' =>
          /\ last'.socketWrites = 0
          /\ ~last'.flushCalled
          /\ stream' = stream
          /\ log' = log
          /\ flushedLen' = flushedLen
          /\ shared_secret.snd # NoSecret]_vars

\* A send that fails in encryption after a write that succeeded: the stream
\* holds the bytes of the first write and nothing else
C18_Witness ==
    /\ FailedBeforeSocket
    /\ last.op = "send"
    /\ last.err = "encrypt"
    /\ Len(log) = 1
    /\ log[1].origin = "write"
    /\ stream = EntryBytes(1)
    /\ Len(stream) > 0

(***************************************************************************)
(* C19. A read failure costs exactly one outer frame: a read() with a key  *)
(* that fails in envelope parsing or decoding, in decryption or in the     *)
(* nested parse has consumed the offending outer frame whole; the next     *)
(* read() starts at the next outer frame and returns the message written   *)
(* there, or None when the stream ends there; with whole frames on the     *)
(* stream the receiver always stands at a frame boundary, so no later      *)
(* frame is mis-parsed or skipped.                                         *)
(***************************************************************************)
EnvelopeErrors == {"json", "decode", "decrypt", "nested_read", "nested_missing"}

EnvelopeFailure == last.op = "read" /\ last.res = "err" /\ last.err \in EnvelopeErrors

WholeFrames == \A i \in 1..Len(log) : log[i].origin # "raw"

FrameBoundaries == {log[i].start : i \in 1..Len(log)} \cup {Len(stream)}

CostsOneFrame ==
    (shared_secret.rcv # NoSecret /\ WholeFrames) =>
        /\ rpos \in FrameBoundaries
        /\ EnvelopeFailure =>
               /\ last.idx # 0
               /\ last.used = log[last.idx].len
               /\ rpos = log[last.idx].start + log[last.idx].len
        /\ \A i \in 1..Len(log) :
               (ReadOf(i) /\ ByStreamer(i) /\ log[i].secret = shared_secret.rcv) =>
                   /\ last.res = "some"
                   /\ SameFrame(last.frame, log[i].inner)

\* The read() that follows a failed one
NextReadAfterFailure ==
    (shared_secret.rcv # NoSecret /\ WholeFrames /\ EnvelopeFailure /\ last'.op = "read") =>
        IF last.idx = Len(log)
        THEN last'.res = "none" /\ rpos' = rpos
        ELSE /\ last'.idx = last.idx + 1
             /\ last'.res # "none"
             /\ (ByStreamer(last.idx + 1) /\ log[last.idx + 1].secret = shared_secret.rcv) =>
                    /\ last'.res = "some"
                    /\ SameFrame(last'.frame, log[last.idx + 1].inner)
                    /\ delivered' = Append(delivered, last'.frame)

C19_ReadFailureCostsOneFrame == []CostsOneFrame /\ [][NextReadAfterFailure]_vars

\* An envelope without a frame in it, then a sent message: the first read
\* failed, the second returned the sent message
C19_Witness ==
    /\ shared_secret.rcv = <<90>>
    /\ Len(log) = 2
    /\ log[1].origin = "peer"
    /\ log[1].plain = <<>>
    /\ ByStreamer(2)
    /\ ReadOf(2)
    /\ last.res = "some"
    /\ delivered = <<log[2].inner>>
    /\ rpos = Len(stream)

(***************************************************************************)
(* C20. Key asymmetry never hands over the sender's frame silently.  As    *)
(* stated: a frame written with a key and read without one comes back as   *)
(* the outer Binary frame with the envelope as payload; a frame written    *)
(* without a key and read with one gives an error; in neither case is the  *)
(* frame returned equal to the one the sender meant.                       *)
(***************************************************************************)
SenderOnlyKeyed(i) == log[i].secret # NoSecret /\ shared_secret.rcv = NoSecret

ReceiverOnlyKeyed(i) == log[i].secret = NoSecret /\ shared_secret.rcv # NoSecret

ReturnsOuterFrame(i) ==
    /\ last.res = "some"
    /\ last.frame = log[i].handed
    /\ last.frame.opcode = OpBinary
    /\ from_json_bytes(last.frame.payload).ok
    /\ ~SameFrame(last.frame, log[i].inner)

C20_KeyAsymmetryAsStated ==
    \A i \in 1..Len(log) :
        (ReadOf(i) /\ ByStreamer(i)) =>
            /\ SenderOnlyKeyed(i) => ReturnsOuterFrame(i)
            /\ ReceiverOnlyKeyed(i) => last.res = "err"

\* The payload is an envelope that opens under the key to bytes that begin
\* with a frame
OpensUnder(payload, secret) ==
    LET json == from_json_bytes(payload)
        env  == RoundtripEnvelope_decode(json.data)
        dec  == symmetric_decrypt(secret[1], env.data)
    IN /\ json.ok
       /\ env.ok
       /\ dec.ok
       /\ ParseFrame(dec.data).status = "ok"

\* C20, amended: a frame written without a key and read with one gives an
\* error unless its payload is an envelope that opens under the receiver's
\* key; then read() returns the frame nested in that payload.  In every case
\* the frame returned differs from the one the sender wrote.
C20_KeyAsymmetry ==
    \A i \in 1..Len(log) :
        (ReadOf(i) /\ ByStreamer(i)) =>
            /\ SenderOnlyKeyed(i) => ReturnsOuterFrame(i)
            /\ ReceiverOnlyKeyed(i) =>
                   /\ last.res \in {"some", "err"}
                   /\ last.res = "some" <=>
                          /\ ParseFrame(EntryBytes(i)).status = "ok"
                          /\ OpensUnder(log[i].inner.payload, shared_secret.rcv)
                   /\ last.res = "some" =>
                          /\ ~SameFrame(last.frame, log[i].inner)
                          /\ Len(format_into_buf(last.frame)) < Len(log[i].inner.payload)

\* A Binary message whose data is an envelope under key 90, sent without a
\* key and read with key 90: read() returns the Ping nested in the data
C20_Witness ==
    /\ ReadOf(1)
    /\ ByStreamer(1)
    /\ ReceiverOnlyKeyed(1)
    /\ shared_secret.rcv = <<90>>
    /\ log[1].inner = Frame_message(EnvelopeOfPing, OpBinary, TRUE)
    /\ last.res = "some"
    /\ last.frame = Frame_ping(<<1>>)

(***************************************************************************)
(* C21. Layer8Stream write is all-or-error: write(p) of a non-empty p      *)
(* returns Ok, with the count len(p), only if the underlying stream took   *)
(* the whole envelope; if it took fewer bytes, or none, write returns an   *)
(* error and written_len keeps its previous value; write of an empty       *)
(* buffer returns Ok(0) and puts nothing on the underlying stream.         *)
(***************************************************************************)
\* The length of the envelope the next write makes of payload p
EnvelopeLen(p) ==
    Len(to_json_bytes(RoundtripEnvelope_encode(
            symmetric_encrypt(layer8_stream.shared_secret,
                              FreshNonce(Len(stream_hist.log)), p))))

\* The bytes the underlying stream took in this step
Taken == layer8_stream'.stream.pos - layer8_stream.stream.pos

WriteAllOrError ==
    stream_hist'.last.op = "write" =>
        LET p == stream_hist'.last.payload IN
        /\ stream_hist'.last.res \in {"ok", "err"}
        /\ stream_hist'.last.res = "ok" => stream_hist'.last.n = Len(p)
        /\ p = <<>> =>
              /\ stream_hist'.last.res = "ok"
              /\ Taken = 0
              /\ layer8_stream'.stream = layer8_stream.stream
        /\ p # <<>> =>
              /\ Taken <= EnvelopeLen(p)
              /\ stream_hist'.last.res = "ok" <=> Taken = EnvelopeLen(p)
              /\ stream_hist'.last.res = "ok" => layer8_stream'.written_len = Taken
              /\ stream_hist'.last.res = "err" =>
                    layer8_stream'.written_len = layer8_stream.written_len

C21_WriteAllOrError == [][WriteAllOrError]_vars

\* A whole write, then a write of which the underlying stream took only a
\* part: an error, part of an envelope on the stream, written_len still the
\* length of the first envelope
C21_Witness ==
    /\ Len(stream_hist.log) = 2
    /\ stream_hist.log[1].ok
    /\ ~stream_hist.log[2].ok
    /\ stream_hist.log[2].len > 0
    /\ stream_hist.last.op = "write"
    /\ stream_hist.last.res = "err"
    /\ stream_hist.last.n = 0
    /\ layer8_stream.written_len = stream_hist.log[1].len

(***************************************************************************)
(* C22. Layer8Stream read depends only on the bytes received in the call:  *)
(* a read that starts at the envelope of a whole write and gets all of its *)
(* bytes from the underlying stream, and no others, returns the payload of *)
(* that write whatever the length of the caller's buffer and whatever it   *)
(* held before, as a read into a buffer of the envelope's length does.     *)
(***************************************************************************)
\* The last operation was a read that began at the envelope of write i and
\* received exactly its bytes, into a buffer at least as long
ReceivedEnvelope(i) ==
    /\ stream_hist.last.op = "read"
    /\ stream_hist.log[i].ok
    /\ stream_hist.last.pos = stream_hist.log[i].start
    /\ layer8_stream.stream.pos - stream_hist.last.pos = stream_hist.log[i].len
    /\ Len(stream_hist.last.buf) >= stream_hist.log[i].len
    /\ \A j \in 1..Len(stream_hist.log) :
          j > i => stream_hist.log[j].start >= stream_hist.log[i].start + stream_hist.log[i].len

C22_ReadDependsOnReceived ==
    \A i \in 1..Len(stream_hist.log) :
        ReceivedEnvelope(i) =>
            /\ stream_hist.last.res = "ok"
            /\ stream_hist.last.n = Len(stream_hist.log[i].payload)
            /\ SubSeq(stream_hist.last.buf, 1, stream_hist.last.n)
                  = stream_hist.log[i].payload

(***************************************************************************)
(* C23. read() on arbitrary input ends without panic: for every inbound    *)
(* byte sequence, with or without a key, the call ends, with Ok(Some(..)), *)
(* Ok(None) or Err(..); the frame socket asks the underlying stream for    *)
(* bytes at most once after the data has ended; and the result is the one  *)
(* read_message has on that input.                                         *)
(***************************************************************************)
\* Turns of the frame socket's loop that the input allows: one per chunk,
\* one that finds the end of the data or the frame, one for the envelope
MaxTurns == (Len(fuzz.input) \div ReadChunk) + 3

ReadOutcome ==
    /\ fuzz.pc \in {"read", "unwrap", "done"}
    /\ fuzz.turns <= MaxTurns
    /\ fuzz.in_buffer \o fuzz.rest
          = Drop(fuzz.input, Len(fuzz.input) - Len(fuzz.in_buffer) - Len(fuzz.rest))
    /\ fuzz.pc = "done" =>
          LET r == read_message(fuzz.input, fuzz.secret) IN
          /\ fuzz.res \in {"some", "none", "err"}
          /\ fuzz.res = r.res
          /\ fuzz.frame = r.frame
          /\ fuzz.err = r.err
          /\ fuzz.res = "none" <=> fuzz.input = <<>>
          /\ fuzz.res # "err" <=> fuzz.err = ""

ReadEnded == fuzz.pc = "done"

C23_ReadEnds == []ReadOutcome /\ <>ReadEnded

\* The ends seen: an error after the data ended inside a frame, and a frame
\* out of an envelope that arrived in several chunks
C23_WitnessTruncated ==
    /\ fuzz.pc = "done"
    /\ fuzz.secret # NoSecret
    /\ fuzz.input = <<130, 1>>
    /\ fuzz.res = "err"
    /\ fuzz.rest = <<>>

C23_Witness ==
    /\ fuzz.pc = "done"
    /\ fuzz.secret = <<90>>
    /\ Len(fuzz.input) > 2 * ReadChunk
    /\ fuzz.res = "some"
    /\ fuzz.frame = Frame_ping(<<1>>)
    /\ fuzz.turns > 3

(***************************************************************************)
(* C24. Connections are isolated: with one worker per connection, each     *)
(* with its own streamer and its own copy of the key, under every          *)
(* interleaving of the clients and workers the frames a worker has read    *)
(* are the messages sent on its own connection, in the order sent, and no  *)
(* read fails; what happens on the other connection changes nothing of it. *)
(***************************************************************************)
\* The frames read on c are the first messages sent on c, in order
ConnFifo(c) ==
    /\ Len(conns[c].got) <= Len(conns[c].sent)
    /\ \A i \in 1..Len(conns[c].got) :
          /\ SameFrame(conns[c].got[i], MessageToFrame(conns[c].sent[i]))
          /\ \E m \in ConnMessages(c) : conns[c].got[i] = MessageToFrame(m)
    /\ conns[c].errs = 0

AllConnFifo == \A c \in Conns : ConnFifo(c)

\* A step on one connection leaves the other as it was
OtherUntouched ==
    \A c \in Conns :
        conns'[c] # conns[c] => \A d \in Conns \ {c} : conns'[d] = conns[d]

C24_ConnectionsIsolated == []AllConnFifo /\ [][OtherUntouched]_vars

\* Both connections have carried two messages, read in full, the sends of
\* the two having alternated
C24_Witness ==
    /\ conns["A"].sent = <<Msg("Text", <<97>>), Msg("Ping", <<1>>)>>
    /\ conns["B"].sent = <<Msg("Ping", <<2>>), Msg("Text", <<98>>)>>
    /\ Len(conns["A"].got) = 2
    /\ Len(conns["B"].got) = 2
    /\ conns["B"].got[1] = Frame_ping(<<2>>)
    /\ conns["A"].rpos = Len(conns["A"].wire)
    /\ conns["B"].rpos = Len(conns["B"].wire)

(***************************************************************************)
(* C25. The key setting of a streamer is fixed at construction: no read,   *)
(* write, send or flush, successful or failed, changes whether the key is  *)
(* present or which key it is; so the frames one streamer has written are  *)
(* all envelopes in Binary frames, written under its key, or all the       *)
(* frames of the messages themselves.                                      *)
(***************************************************************************)
KeyUnchanged == shared_secret' = shared_secret

SamePath ==
    \A i \in 1..Len(log) :
        ByStreamer(i) =>
            /\ log[i].secret = shared_secret.snd
            /\ shared_secret.snd = NoSecret => log[i].handed = log[i].inner
            /\ shared_secret.snd # NoSecret =>
                  /\ log[i].handed.opcode = OpBinary
                  /\ log[i].handed.fin
                  /\ from_json_bytes(log[i].handed.payload).ok
                  /\ log[i].handed # log[i].inner

C25_KeyFixed == [][KeyUnchanged]_vars /\ []SamePath

\* Two messages written under the key, then a flush that failed
C25_Witness ==
    /\ shared_secret.snd = <<90>>
    /\ Len(log) = 2
    /\ ByStreamer(1) /\ ByStreamer(2)
    /\ log[1].inner.opcode = OpText
    /\ log[2].inner.opcode = OpPing
    /\ log[1].handed.opcode = OpBinary
    /\ log[2].handed.opcode = OpBinary
    /\ last.op = "flush"
    /\ last.res = "err"

=============================================================================
